---- MODULE Spec2Model ----
(***************************************************************************)
(* State-machine model of the traversal loops of the scraper repository:   *)
(*   AmazonScraper.scrape_products          scraper/amazon_scraper.py      *)
(*   BBCScraper.scrape_news                 scraper/bbc_scraper.py         *)
(*   GoogleShoppingScraper.scrape_products  scraper/google_shopping_...py  *)
(*   YouTubeScraper.search_videos           youtube_scraper.py             *)
(* together with the scroll-until-stable helpers they call and the URL     *)
(* canonicalisation AmazonScraper._clean_url.                              *)
(*                                                                         *)
(* One traversal runs per behaviour: Init picks the scraper (routine) and  *)
(* its target.  The browser is the environment: every value the code reads *)
(* from the driver (a scroll height, the next candidate node, whether the  *)
(* next-page control can be clicked, whether a driver call raises) is      *)
(* drawn with \E at the step that reads it.                                *)
(*                                                                         *)
(* Strings are sequences of symbols.  A symbol is one character of the     *)
(* URL, or one percent-encoded token of the replacement table, or an       *)
(* opaque run of characters ("ref", "a", "B") that contains none of the    *)
(* characters the code searches for.                                       *)
(*                                                                         *)
(* A second specification, FieldSpec, runs the extraction of the fields of *)
(* one card on its own: AmazonScraper._extract_product_data with its       *)
(* selector chains and _extract_price, the card loop of                    *)
(* BBCScraper.scrape_news, and the text normalizers                        *)
(* AmazonScraper._clean_text, utils.clean_text, the Amazon title cleanup   *)
(* and _clean_url, each applied to a text and then to its own result.      *)
(***************************************************************************)
EXTENDS Integers, Sequences, FiniteSets, TLC

----------------------------------------------------------------------------
\* Bounds of the model.

\* largest max_pages / max_articles / max_products / max_videos
MaxTarget == 2
\* most candidate nodes one page (or the YouTube result list) offers
MaxNodes == 2
\* page indices of the target-driven traversals saturate here
MaxPage == 3
\* scroll heights are read from 1..MaxHeight
MaxHeight == 2
\* AmazonScraper.products is not grown beyond this length
MaxProducts == 3
\* most selectors of one chain that find an element in a card
MaxSelectors == 2
\* longest text handed to a text normalizer, in symbols
MaxTextLen == 3

\* Program constants.

\* youtube_scraper.py:225  max_retries = 10
max_retries == 10
\* youtube_scraper.py:73   max_no_change = 5
max_no_change == 5
\* bbc_scraper.py:121      for _ in range(3): self._scroll_page()
ScrollPasses == 3

Heights == 1..MaxHeight

----------------------------------------------------------------------------
\* Strings and URLs.

\* the string "N/A"
NA == <<"N/A">>
\* Python None
None == <<"None">>
\* settings.AMAZON_BASE_URL, default 'https://www.amazon.com': it holds no
\* backslash, no "/ref=" and no percent sign, and ends in a letter
AMAZON_BASE_URL == <<"B">>

\* hrefs / links the pages offer: UrlA and UrlARef differ only in the
\* tracking suffix "/ref=x"
UrlA == <<"/", "a">>
UrlARef == <<"/", "a", "/", "ref", "=", "x">>
UrlB == <<"/", "b">>
UrlC == <<"/", "c">>
Urls == {UrlA, UrlARef, UrlB}

\* str.replace(pat, rep): every non-overlapping occurrence, left to right
RECURSIVE Replace(_, _, _)
Replace(s, pat, rep) ==
    IF Len(s) < Len(pat) THEN s
    ELSE IF SubSeq(s, 1, Len(pat)) = pat
         THEN rep \o Replace(SubSeq(s, Len(pat) + 1, Len(s)), pat, rep)
         ELSE <<Head(s)>> \o Replace(Tail(s), pat, rep)

\* s.split(pat)[0]: the part of s before the first occurrence of pat, all of
\* s when pat does not occur
RECURSIVE SplitFirst(_, _)
SplitFirst(s, pat) ==
    IF Len(s) < Len(pat) THEN s
    ELSE IF SubSeq(s, 1, Len(pat)) = pat THEN <<>>
         ELSE <<Head(s)>> \o SplitFirst(Tail(s), pat)

\* pat in s
Contains(s, pat) == SplitFirst(s, pat) # s

\* the replacement table of _clean_url, in dict order
replacements ==
    << <<"%E2%80%91", "-">>, <<"%E2%80%93", "-">>, <<"%E2%80%94", "-">>,
       <<"%20", " ">>, <<"%2C", ",">>, <<"%2F", "/">>, <<"%3A", ":">>,
       <<"%3F", "?">>, <<"%3D", "=">>, <<"%26", "&">> >>

\* for encoded, decoded in replacements.items(): url = url.replace(...)
RECURSIVE ReplaceEncoded(_, _)
ReplaceEncoded(url, i) ==
    IF i > Len(replacements) THEN url
    ELSE ReplaceEncoded(
             Replace(url, <<replacements[i][1]>>, <<replacements[i][2]>>), i + 1)

\* AmazonScraper._clean_url
_clean_url(url) ==
    IF url = <<>> \/ url = None \/ url = NA THEN NA
    ELSE LET unescaped == Replace(url, <<"\\", "/">>, <<"/">>)
             cut == IF Contains(unescaped, <<"/", "ref", "=">>)
                    THEN SplitFirst(unescaped, <<"/", "ref", "=">>)
                    ELSE unescaped
         IN  ReplaceEncoded(cut, 1)

----------------------------------------------------------------------------
\* State.

VARIABLES
    routine,               \* the traversal that runs: "amazon", "bbc", "google", "youtube"
    pc,                    \* position of the traversal in its code
    result,                \* the list the traversal returned (when pc = "done")
    failed,                \* TRUE when it returned from its outermost except clause
    last_height,           \* last_height of the running scroll routine
    examined,              \* candidate nodes of the current round already processed
    lastNode,              \* the candidate node read last
    nextResult,            \* what the last next-page action met
    \* AmazonScraper.scrape_products
    max_pages, products, page,
    \* BBCScraper.scrape_news
    max_articles, articles_data, bbc_processed_urls, seen_links, unique_articles,
    page_number, scroll_pass,
    \* GoogleShoppingScraper.scrape_products
    max_products, products_data, processed_urls, g_page, all_products, g_products,
    \* YouTubeScraper.search_videos and _human_like_scroll
    max_videos, videos_data, processed_videos, last_video_count,
    no_new_videos_count, video_elements, no_change_count,
    \* the entry point that runs the traversal
    entry,                 \* "main" (main.py), "amazon_main", "bbc_main"; "direct":
                           \* the traversal is called on a scraper at hand
    mpc,                   \* position of the entry point in its code
    scraper,               \* its local variable scraper: "unbound", "none", "created"
    closed,                \* TRUE once scraper.close() was called
    signal,                \* the user's interrupt: "none", "raised", "swallowed"
    persisted,             \* the records save_results wrote to the output files
    \* field extraction on its own
    f_pc,                  \* position of the loop over the cards: "card", "extracted",
                           \* "text", "end"; "idle" while a traversal runs
    grid,                  \* the cards of the page not yet passed; the head is at hand
    product_data,          \* what the extraction of the last card returned
    accepted,              \* the records appended for the page so far
    normalizer,            \* the text normalizer applied: "_clean_text" (AmazonScraper),
                           \* "clean_text" (utils), "title_cleanup", "_clean_url";
                           \* else "none"
    normalized             \* the text handed to the normalizer, then its successive results

common == <<routine, pc, result, failed, last_height, examined, lastNode, nextResult>>
amazonVars == <<max_pages, products, page>>
bbcVars == <<max_articles, articles_data, bbc_processed_urls, seen_links,
             unique_articles, page_number, scroll_pass>>
googleVars == <<max_products, products_data, processed_urls, g_page,
                all_products, g_products>>
youtubeVars == <<max_videos, videos_data, processed_videos, last_video_count,
                 no_new_videos_count, video_elements, no_change_count>>
mainVars == <<entry, mpc, scraper, closed, signal>>
traversalVars == <<common, amazonVars, bbcVars, googleVars, youtubeVars, mainVars, persisted>>
fieldVars == <<f_pc, grid, product_data, accepted, normalizer, normalized>>
vars == <<traversalVars, fieldVars>>

\* A candidate node as the extraction code meets it:
\*   url   the href / link its link element carries, None when no link
\*         selector matches
\*   err   TRUE when reading the node raises (stale element, not displayed)
\*   desc  BBC only: the text of the description element, "N/A" when no
\*         description selector matches
Node(u, e, d) == [url |-> u, err |-> e, desc |-> d]
Nodes ==
    {Node(u, FALSE, "text") : u \in Urls \cup {None}} \cup {Node(None, TRUE, "text")}
BBCNodes == Nodes \cup {Node(u, FALSE, "N/A") : u \in Urls}
NoNode == Node(None, FALSE, "none")

\* the sequences over S of length at most n: the lists find_elements returns
SeqsUpTo(S, n) == UNION {[1..k -> S] : k \in 0..n}

\* the orders in which the elements of the list s can be iterated
IterationOrders(s) ==
    {[i \in 1..Len(s) |-> s[f[i]]] :
        f \in {g \in [1..Len(s) -> 1..Len(s)] :
                  \A i, j \in 1..Len(s) : i # j => g[i] # g[j]}}

\* Google Shopping: a page offers any list of up to MaxNodes nodes, or one
\* of the two pages
\*   /a, /b, /a   and   /c
\* of valid nodes; the target is at most MaxTarget, or one record for each
\* node of the longer of these pages
ThreeNodePage == <<Node(UrlA, FALSE, "text"), Node(UrlB, FALSE, "text"),
                   Node(UrlA, FALSE, "text")>>
OneNodePage == <<Node(UrlC, FALSE, "text")>>
GooglePages == SeqsUpTo(Nodes, MaxNodes) \cup {ThreeNodePage, OneNodePage}
GoogleTargets == 0..MaxTarget \cup {Len(ThreeNodePage)}
\* the price of a record: a float, or None
UsablePrice == <<"9.99">>
Prices == {UsablePrice, None}

\* what a next-page action can meet
NextFailures == {"absent", "not_clickable", "raises"}

Routines == {"amazon", "bbc", "google", "youtube"}

\* page indices beyond MaxPage are not told apart
NextIndex(p) == IF p < MaxPage THEN p + 1 ELSE p

\* the entry points of the repository: main.main and amazon_main.main run
\* AmazonScraper, bbc_main.main runs BBCScraper
EntryPoints(r) ==
    CASE r = "amazon" -> {"main", "amazon_main"}
      [] r = "bbc" -> {"bbc_main"}
      [] OTHER -> {"direct"}

\* the field variables while a traversal runs
FieldIdle ==
    /\ f_pc = "idle" /\ grid = <<>> /\ product_data = None /\ accepted = <<>>
    /\ normalizer = "none" /\ normalized = <<>>

Init ==
    /\ routine \in Routines
    /\ entry \in EntryPoints(routine)
    /\ mpc = (IF entry = "direct" THEN "scrape" ELSE "init")
    /\ pc = (IF entry = "direct" THEN "start" ELSE "main")
    /\ scraper = (CASE entry = "direct" -> "created"
                   [] entry = "bbc_main" -> "none"
                   [] OTHER -> "unbound")
    /\ closed = FALSE
    /\ signal = "none"
    /\ persisted = <<>>
    /\ result = <<>>
    /\ failed = FALSE
    /\ last_height = 1
    /\ examined = 0
    /\ lastNode = NoNode
    /\ nextResult = "none"
    /\ max_pages \in (IF routine = "amazon" THEN 0..MaxTarget ELSE {0})
    /\ products = <<>>
    /\ page = 1
    /\ max_articles \in (IF routine = "bbc" THEN 0..MaxTarget ELSE {0})
    /\ articles_data = <<>>
    /\ bbc_processed_urls = {}
    /\ seen_links = {}
    /\ unique_articles = <<>>
    /\ page_number = 1
    /\ scroll_pass = 0
    /\ max_products \in (IF routine = "google" THEN GoogleTargets ELSE {0})
    /\ products_data = <<>>
    /\ processed_urls = {}
    /\ g_page = 1
    /\ all_products = <<>>
    /\ g_products = <<>>
    /\ max_videos \in (IF routine = "youtube" THEN 0..MaxTarget ELSE {0})
    /\ videos_data = <<>>
    /\ processed_videos = {}
    /\ last_video_count = 0
    /\ no_new_videos_count = 0
    /\ video_elements = <<>>
    /\ no_change_count = 0
    /\ FieldIdle

\* the statement "return xs" of a traversal
Return(xs) ==
    /\ pc' = "done"
    /\ result' = xs

----------------------------------------------------------------------------
\* AmazonScraper.scrape_products  (amazon_scraper.py 396-467)

\* product_link of _extract_product_data: "N/A" when no link selector
\* matches, else _clean_url(AMAZON_BASE_URL + href)   (280-292)
AmazonLink(n) ==
    IF n.url = None THEN NA ELSE _clean_url(AMAZON_BASE_URL \o n.url)

\* 406-411: max_pages, page = 1
AmazonStart ==
    /\ routine = "amazon" /\ pc = "start"
    /\ page' = 1
    /\ pc' = "loop"
    /\ UNCHANGED <<fieldVars, routine, result, failed, last_height, examined, lastNode,
                   nextResult, max_pages, products, bbcVars, googleVars, youtubeVars, mainVars, persisted>>

\* AmazonWhile with the loop test written "page <= max_pages + 1"
AmazonWhile_OffByOne ==
    /\ routine = "amazon" /\ pc = "loop"
    /\ IF page <= max_pages + 1
       THEN \/ \E h \in Heights :
                  /\ last_height' = h
                  /\ pc' = "scroll"
                  /\ nextResult' = "none"
                  /\ UNCHANGED result
            \/ Return(products) /\ UNCHANGED <<last_height, nextResult>>
       ELSE Return(products) /\ UNCHANGED <<last_height, nextResult>>
    /\ UNCHANGED <<fieldVars, routine, failed, examined, lastNode, amazonVars,
                   bbcVars, googleVars, youtubeVars, mainVars, persisted>>

\* 413-415 and 90: the loop test, then _scroll_page reads the first height;
\* an exception of the driver is caught at 463 and breaks the loop
AmazonWhile ==
    /\ routine = "amazon" /\ pc = "loop"
    /\ IF page <= max_pages
       THEN \/ \E h \in Heights :
                  /\ last_height' = h
                  /\ pc' = "scroll"
                  /\ nextResult' = "none"
                  /\ UNCHANGED result
            \/ Return(products) /\ UNCHANGED <<last_height, nextResult>>
       ELSE Return(products) /\ UNCHANGED <<last_height, nextResult>>
    /\ UNCHANGED <<fieldVars, routine, failed, examined, lastNode, amazonVars,
                   bbcVars, googleVars, youtubeVars, mainVars, persisted>>

\* 91-97: one pass of the while True of _scroll_page
AmazonScrollPage ==
    /\ routine = "amazon" /\ pc = "scroll"
    /\ \/ \E new_height \in Heights :
              IF new_height = last_height
              THEN pc' = "grid" /\ UNCHANGED <<last_height, result>>
              ELSE last_height' = new_height /\ UNCHANGED <<pc, result>>
       \/ Return(products) /\ UNCHANGED last_height
    /\ UNCHANGED <<fieldVars, routine, failed, examined, lastNode, nextResult, amazonVars,
                   bbcVars, googleVars, youtubeVars, mainVars, persisted>>

\* 418-422: wait for the product grid; a timeout is caught at 463
AmazonWaitGrid ==
    /\ routine = "amazon" /\ pc = "grid"
    /\ \/ pc' = "extract" /\ examined' = 0 /\ UNCHANGED result
       \/ Return(products) /\ UNCHANGED examined
    /\ UNCHANGED <<fieldVars, routine, failed, last_height, lastNode, nextResult, amazonVars,
                   bbcVars, googleVars, youtubeVars, mainVars, persisted>>

\* AmazonExtract without the handler at 392-394: an element whose reading
\* raises reaches the handler at 463, which breaks the loop
AmazonExtract_ErrBreaks ==
    /\ routine = "amazon" /\ pc = "extract"
    /\ examined < MaxNodes
    /\ \E n \in Nodes :
          /\ ~n.err => Len(products) < MaxProducts
          /\ lastNode' = n
          /\ IF n.err
             THEN Return(products) /\ UNCHANGED products
             ELSE /\ products' = Append(products, [product_link |-> AmazonLink(n)])
                  /\ UNCHANGED <<pc, result>>
    /\ examined' = examined + 1
    /\ UNCHANGED <<fieldVars, routine, failed, last_height, nextResult, max_pages,
                   page, bbcVars, googleVars, youtubeVars, mainVars, persisted>>

\* 425-428: one element of product_grid; _extract_product_data returns None
\* when reading the element raises (392-394)
AmazonExtract ==
    /\ routine = "amazon" /\ pc = "extract"
    /\ examined < MaxNodes
    /\ \E n \in Nodes :
          /\ ~n.err => Len(products) < MaxProducts
          /\ lastNode' = n
          /\ products' = IF n.err THEN products
                         ELSE Append(products, [product_link |-> AmazonLink(n)])
    /\ examined' = examined + 1
    /\ UNCHANGED <<fieldVars, routine, pc, result, failed, last_height, nextResult, max_pages,
                   page, bbcVars, googleVars, youtubeVars, mainVars, persisted>>

\* 430: the for loop over the (non-empty) product_grid is over; its loop
\* variable is not read again
AmazonGridDone ==
    /\ routine = "amazon" /\ pc = "extract"
    /\ examined >= 1
    /\ pc' = "next"
    /\ examined' = 0
    /\ lastNode' = NoNode
    /\ UNCHANGED <<fieldVars, routine, result, failed, last_height,
                   nextResult, amazonVars, bbcVars, googleVars, youtubeVars, mainVars, persisted>>

\* AmazonNextPage without the test of current_url at 452: the page index is
\* advanced after every click
AmazonNextPage_NoVerify ==
    /\ routine = "amazon" /\ pc = "next"
    /\ \E met \in NextFailures \cup {"verified", "unverified"} :
          /\ nextResult' = met
          /\ IF met \in {"verified", "unverified"}
             THEN page' = page + 1 /\ pc' = "loop" /\ UNCHANGED result
             ELSE Return(products) /\ UNCHANGED page
    /\ UNCHANGED <<fieldVars, routine, failed, last_height, examined, lastNode, max_pages,
                   products, bbcVars, googleVars, youtubeVars, mainVars, persisted>>

\* 432-461: the next-page action
AmazonNextPage ==
    /\ routine = "amazon" /\ pc = "next"
    /\ \E met \in NextFailures \cup {"verified", "unverified"} :
          /\ nextResult' = met
          /\ CASE met = "verified" ->
                    \* 452-454: "page=" in current_url
                    page' = page + 1 /\ pc' = "loop" /\ UNCHANGED result
               [] met = "unverified" ->
                    \* 455-457: continue
                    pc' = "loop" /\ UNCHANGED <<page, result>>
               [] OTHER ->
                    \* 459-461: break
                    Return(products) /\ UNCHANGED page
    /\ UNCHANGED <<fieldVars, routine, failed, last_height, examined, lastNode, max_pages,
                   products, bbcVars, googleVars, youtubeVars, mainVars, persisted>>

AmazonNext ==
    \/ AmazonStart \/ AmazonWhile \/ AmazonScrollPage \/ AmazonWaitGrid
    \/ AmazonExtract \/ AmazonGridDone \/ AmazonNextPage

----------------------------------------------------------------------------
\* BBCScraper.scrape_news  (bbc_scraper.py 100-395)

\* 393-395: the outermost except clause returns an empty list
BBCFail ==
    /\ pc' = "done"
    /\ result' = <<>>
    /\ failed' = TRUE
    /\ UNCHANGED persisted

\* 375-391: the loop is over; a non-empty articles_data is handed to
\* save_results (73-98), which writes the files or catches its own error
BBCReturn ==
    /\ Return(articles_data)
    /\ persisted' \in (IF articles_data # <<>> THEN {articles_data, persisted}
                                                ELSE {persisted})
    /\ UNCHANGED failed

\* 102-115: load the search page, then the empty accumulators
BBCStart ==
    /\ routine = "bbc" /\ pc = "start"
    /\ \/ /\ articles_data' = <<>>
          /\ bbc_processed_urls' = {}
          /\ page_number' = 1
          /\ pc' = "loop"
          /\ UNCHANGED <<result, failed, persisted>>
       \/ BBCFail /\ UNCHANGED <<articles_data, bbc_processed_urls, page_number>>
    /\ UNCHANGED <<fieldVars, routine, last_height, examined, lastNode, nextResult, max_articles,
                   seen_links, unique_articles, scroll_pass, amazonVars, googleVars,
                   youtubeVars, mainVars>>

\* 117-122 and 54: the loop test, then the first of the three _scroll_page
\* calls reads its first height; these calls stand outside the inner try, so
\* an exception of the driver reaches the outermost except clause
BBCWhile ==
    /\ routine = "bbc" /\ pc = "loop"
    /\ IF Len(articles_data) < max_articles
       THEN \/ \E h \in Heights :
                  /\ last_height' = h
                  /\ scroll_pass' = 0
                  /\ pc' = "scroll"
                  /\ nextResult' = "none"
                  /\ UNCHANGED <<result, failed, persisted>>
            \/ BBCFail /\ UNCHANGED <<last_height, scroll_pass, nextResult>>
       ELSE BBCReturn /\ UNCHANGED <<last_height, scroll_pass, nextResult>>
    /\ UNCHANGED <<fieldVars, routine, examined, lastNode, max_articles,
                   articles_data, bbc_processed_urls, seen_links, unique_articles,
                   page_number, amazonVars, googleVars, youtubeVars, mainVars>>

\* 56-71: one pass of the while True of _scroll_page (the inner smooth scroll
\* 59-62 ends: current_height grows by at least 100 each time); when the
\* height is unchanged the call returns and the next of the three calls
\* (121-123) reads its first height
BBCScrollPage ==
    /\ routine = "bbc" /\ pc = "scroll"
    /\ \/ \E new_height \in Heights :
              IF new_height = last_height
              THEN IF scroll_pass + 1 < ScrollPasses
                   THEN \E h \in Heights :
                            /\ last_height' = h
                            /\ scroll_pass' = scroll_pass + 1
                            /\ UNCHANGED <<pc, result, failed, persisted>>
                   ELSE /\ pc' = "find"
                        /\ UNCHANGED <<last_height, scroll_pass, result, failed, persisted>>
              ELSE /\ last_height' = new_height
                   /\ UNCHANGED <<pc, scroll_pass, result, failed, persisted>>
       \/ BBCFail /\ UNCHANGED <<last_height, scroll_pass>>
    /\ UNCHANGED <<fieldVars, routine, examined, lastNode, nextResult, max_articles,
                   articles_data, bbc_processed_urls, seen_links, unique_articles,
                   page_number, amazonVars, googleVars, youtubeVars, mainVars>>

\* 135-156: collect the article cards (each selector's errors are caught).
\* With no card the code prints driver.page_source (148-152), the one driver
\* call of the inner try that no nearer handler covers: when it raises, the
\* handler at 366-373 refreshes and continues on "stale element" and breaks
\* otherwise.  With no card and no error both for loops are empty.
BBCFindArticles ==
    /\ routine = "bbc" /\ pc = "find"
    /\ \/ /\ pc' = "filter"
          /\ examined' = 0
          /\ seen_links' = {}
          /\ unique_articles' = <<>>
          /\ UNCHANGED <<result, failed, persisted>>
       \/ /\ pc' \in {"next", "loop"}
          /\ UNCHANGED <<examined, seen_links, unique_articles, result, failed, persisted>>
       \/ BBCReturn /\ UNCHANGED <<examined, seen_links, unique_articles>>
    /\ UNCHANGED <<fieldVars, routine, last_height, lastNode, nextResult, max_articles,
                   articles_data, bbc_processed_urls, page_number, scroll_pass,
                   amazonVars, googleVars, youtubeVars, mainVars>>

\* 158-178: one card of the first for loop, which keeps the displayed cards
\* whose link was not seen on this page
BBCFilter ==
    /\ routine = "bbc" /\ pc = "filter"
    /\ examined < MaxNodes
    /\ IF Len(articles_data) >= max_articles
       THEN \* 159-160: break
            /\ pc' = "extract"
            /\ examined' = 0
            /\ lastNode' = NoNode
            /\ seen_links' = {}
            /\ UNCHANGED unique_articles
       ELSE \E n \in BBCNodes :
                /\ lastNode' = n
                /\ examined' = examined + 1
                /\ IF n.err \/ n.url = None \/ n.url \in seen_links
                   THEN UNCHANGED <<seen_links, unique_articles>>
                   ELSE /\ seen_links' = seen_links \cup {n.url}
                        /\ unique_articles' = Append(unique_articles, n)
                /\ UNCHANGED pc
    /\ UNCHANGED <<fieldVars, routine, result, failed, persisted, last_height, nextResult, max_articles,
                   articles_data, bbc_processed_urls, page_number, scroll_pass,
                   amazonVars, googleVars, youtubeVars, mainVars>>

\* 180: the first for loop is over; its loop variable and seen_links are
\* not read again
BBCFilterDone ==
    /\ routine = "bbc" /\ pc = "filter"
    /\ examined >= 1
    /\ pc' = "extract"
    /\ examined' = 0
    /\ lastNode' = NoNode
    /\ seen_links' = {}
    /\ UNCHANGED <<fieldVars, routine, result, failed, persisted, last_height, nextResult,
                   max_articles, articles_data, bbc_processed_urls, unique_articles,
                   page_number, scroll_pass, amazonVars, googleVars, youtubeVars,
                   mainVars>>

\* 182-329: one card of the second for loop: title and link (186-223), date,
\* description (276-295), validation and append (297-310)
BBCExtract ==
    /\ routine = "bbc" /\ pc = "extract"
    /\ unique_articles # <<>>
    /\ LET article == Head(unique_articles)
           link == article.url
           description == article.desc
       IN  \/ IF link \notin bbc_processed_urls /\ description # "N/A"
              THEN /\ articles_data' = Append(articles_data,
                                              [link |-> link, description |-> description])
                   /\ bbc_processed_urls' = bbc_processed_urls \cup {link}
              ELSE UNCHANGED <<articles_data, bbc_processed_urls>>
           \/ \* reading the card raises (stale since the first loop), or no
              \* title selector yields a title and a link: continue (213-220, 327-329)
              UNCHANGED <<articles_data, bbc_processed_urls>>
    /\ unique_articles' = Tail(unique_articles)
    /\ UNCHANGED <<fieldVars, common, persisted, max_articles, seen_links, page_number, scroll_pass,
                   amazonVars, googleVars, youtubeVars, mainVars>>

\* 331-333: after the second for loop, the target test
BBCArticlesDone ==
    /\ routine = "bbc" /\ pc = "extract"
    /\ unique_articles = <<>>
    /\ IF Len(articles_data) >= max_articles
       THEN BBCReturn
       ELSE pc' = "next" /\ UNCHANGED <<result, failed, persisted>>
    /\ UNCHANGED <<fieldVars, routine, last_height, examined, lastNode, nextResult, bbcVars,
                   amazonVars, googleVars, youtubeVars, mainVars>>

\* BBCNextPage without the handler at 362-364: a failing next-page action
\* reaches the outermost except clause
BBCNextPage_Unhandled ==
    /\ routine = "bbc" /\ pc = "next"
    /\ \E met \in NextFailures \cup {"clicked", "clicked_timeout"} :
          /\ nextResult' = met
          /\ CASE met = "clicked" ->
                    /\ page_number' = NextIndex(page_number)
                    /\ pc' = "loop"
                    /\ UNCHANGED <<result, failed, persisted>>
               [] met = "clicked_timeout" ->
                    /\ page_number' = NextIndex(page_number)
                    /\ BBCReturn
               [] met = "not_clickable" ->
                    BBCReturn /\ UNCHANGED page_number
               [] OTHER ->
                    BBCFail /\ UNCHANGED page_number
    /\ UNCHANGED <<fieldVars, routine, last_height, examined, lastNode, max_articles,
                   articles_data, bbc_processed_urls, seen_links, unique_articles,
                   scroll_pass, amazonVars, googleVars, youtubeVars, mainVars>>

\* 335-364: the next-page action.  "clicked_timeout": the click went through
\* and the wait for readyState at 356 timed out, which the handler at 362
\* turns into a break
BBCNextPage ==
    /\ routine = "bbc" /\ pc = "next"
    /\ \E met \in NextFailures \cup {"clicked", "clicked_timeout"} :
          /\ nextResult' = met
          /\ CASE met = "clicked" ->
                    /\ page_number' = NextIndex(page_number)
                    /\ pc' = "loop"
                    /\ UNCHANGED <<result, failed, persisted>>
               [] met = "clicked_timeout" ->
                    /\ page_number' = NextIndex(page_number)
                    /\ BBCReturn
               [] OTHER ->
                    BBCReturn /\ UNCHANGED page_number
    /\ UNCHANGED <<fieldVars, routine, last_height, examined, lastNode, max_articles,
                   articles_data, bbc_processed_urls, seen_links, unique_articles,
                   scroll_pass, amazonVars, googleVars, youtubeVars, mainVars>>

BBCNext ==
    \/ BBCStart \/ BBCWhile \/ BBCScrollPage \/ BBCFindArticles \/ BBCFilter
    \/ BBCFilterDone \/ BBCExtract \/ BBCArticlesDone \/ BBCNextPage

----------------------------------------------------------------------------
\* GoogleShoppingScraper.scrape_products  (google_shopping_scraper.py 69-206)

\* 202-206: the outermost except clause returns an empty list
GoogleFail ==
    /\ pc' = "done"
    /\ result' = <<>>
    /\ failed' = TRUE

\* 200: return products_data
GoogleReturn ==
    /\ Return(products_data)
    /\ UNCHANGED failed

\* the record _extract_product_data builds (346-353): price is the float of
\* the first price text that parses, None when no price selector yields one
GoogleRecord(n, price) == [url |-> n.url, price |-> price]

\* 72-74: the empty accumulators, page = 1
GoogleStart ==
    /\ routine = "google" /\ pc = "start"
    /\ products_data' = <<>>
    /\ processed_urls' = {}
    /\ g_page' = 1
    /\ pc' = "loop"
    /\ UNCHANGED <<fieldVars, routine, result, failed, last_height, examined, lastNode,
                   nextResult, max_products, all_products, g_products,
                   amazonVars, bbcVars, youtubeVars, mainVars, persisted>>

\* 76-116: the loop test, driver.get of the page's URL (an exception reaches
\* the outermost except clause), the wait and the five scroll passes, whose
\* errors are caught where they occur (101, 114) and which are bounded for
\* loops over range(5) and range(0, height, 100)
GoogleWhile ==
    /\ routine = "google" /\ pc = "loop"
    /\ IF Len(products_data) < max_products
       THEN \/ pc' = "find" /\ nextResult' = "none" /\ UNCHANGED <<result, failed>>
            \/ GoogleFail /\ UNCHANGED nextResult
       ELSE GoogleReturn /\ UNCHANGED nextResult
    /\ UNCHANGED <<fieldVars, routine, last_height, examined, lastNode, googleVars,
                   amazonVars, bbcVars, youtubeVars, mainVars, persisted>>

\* 119-159: collect the product nodes.  all_products holds the nodes in the
\* order the page enumerates them; products = list(set(all_products)) (142)
\* iterates a set of WebElements, whose order follows the hashes of the
\* element ids and not the page, so it is some permutation.  (When the
\* selectors find nothing, the alternative search 144-152 returns its nodes
\* in page order: the identity permutation.)  With no node at all the debug
\* page is saved, which catches its own errors, and the loop breaks (154-157).
GoogleFindProducts ==
    /\ routine = "google" /\ pc = "find"
    /\ \E found \in GooglePages :
          /\ all_products' = found
          /\ IF found = <<>>
             THEN /\ g_products' = <<>>
                  /\ GoogleReturn
                  /\ UNCHANGED examined
             ELSE /\ g_products' \in IterationOrders(found)
                  /\ pc' = "extract"
                  /\ examined' = 0
                  /\ UNCHANGED <<result, failed>>
    /\ UNCHANGED <<fieldVars, routine, last_height, lastNode, nextResult, max_products,
                   products_data, processed_urls, g_page, amazonVars, bbcVars,
                   youtubeVars, mainVars, persisted>>

\* GoogleExtract without the break at 178-179: the for loop goes on to the
\* next node after the record that reached the target
GoogleExtract_NoBreak ==
    /\ routine = "google" /\ pc = "extract"
    /\ examined < Len(g_products)
    /\ LET n == g_products[examined + 1]
       IN  /\ lastNode' = n
           /\ IF n.err \/ n.url = None \/ n.url \in processed_urls
              THEN UNCHANGED <<products_data, processed_urls>>
              ELSE \E price \in Prices :
                      /\ products_data' = Append(products_data, GoogleRecord(n, price))
                      /\ processed_urls' = processed_urls \cup {n.url}
    /\ examined' = examined + 1
    /\ UNCHANGED <<fieldVars, routine, pc, result, failed, last_height, nextResult,
                   max_products, g_page, all_products, g_products, amazonVars,
                   bbcVars, youtubeVars, mainVars, persisted>>

\* 162-186: one node of the for loop over products.  n.err: scrollIntoView
\* raises and the handler at 181 continues; _extract_product_data returns
\* None without a url or a title (309-310, 324-325) or when it raises
\* (355-357); a url already in processed_urls is skipped (170-171).
\* Reaching the target breaks the for loop (178-179) and then the while
\* loop (185-186).
GoogleExtract ==
    /\ routine = "google" /\ pc = "extract"
    /\ examined < Len(g_products)
    /\ LET n == g_products[examined + 1]
       IN  /\ lastNode' = n
           /\ IF n.err \/ n.url = None \/ n.url \in processed_urls
              THEN UNCHANGED <<products_data, processed_urls, pc, result, failed>>
              ELSE \E price \in Prices :
                      /\ products_data' = Append(products_data, GoogleRecord(n, price))
                      /\ processed_urls' = processed_urls \cup {n.url}
                      /\ IF Len(products_data') >= max_products
                         THEN Return(products_data') /\ UNCHANGED failed
                         ELSE UNCHANGED <<pc, result, failed>>
    /\ examined' = examined + 1
    /\ UNCHANGED <<fieldVars, routine, last_height, nextResult, max_products, g_page,
                   all_products, g_products, amazonVars, bbcVars, youtubeVars, mainVars, persisted>>

\* 185-186: the for loop ran to its end.  The node lists and the loop
\* variable are not read again before 131, 142 and 162 assign them anew;
\* they are emptied here.
GoogleProductsDone ==
    /\ routine = "google" /\ pc = "extract"
    /\ examined >= Len(g_products)
    /\ IF Len(products_data) >= max_products
       THEN GoogleReturn
       ELSE pc' = "next" /\ UNCHANGED <<result, failed>>
    /\ all_products' = <<>>
    /\ g_products' = <<>>
    /\ examined' = 0
    /\ lastNode' = NoNode
    /\ UNCHANGED <<fieldVars, routine, last_height, nextResult,
                   max_products, products_data, processed_urls, g_page,
                   amazonVars, bbcVars, youtubeVars, mainVars, persisted>>

\* 188-198: the next-page action
GoogleNextPage ==
    /\ routine = "google" /\ pc = "next"
    /\ \E met \in NextFailures \cup {"clicked"} :
          /\ nextResult' = met
          /\ IF met = "clicked"
             THEN /\ g_page' = NextIndex(g_page)
                  /\ pc' = "loop"
                  /\ UNCHANGED <<result, failed>>
             ELSE GoogleReturn /\ UNCHANGED g_page
    /\ UNCHANGED <<fieldVars, routine, last_height, examined, lastNode, max_products,
                   products_data, processed_urls, all_products, g_products,
                   amazonVars, bbcVars, youtubeVars, mainVars, persisted>>

GoogleNext ==
    \/ GoogleStart \/ GoogleWhile \/ GoogleFindProducts \/ GoogleExtract
    \/ GoogleProductsDone \/ GoogleNextPage

----------------------------------------------------------------------------
\* YouTubeScraper.search_videos and _human_like_scroll
\* (youtube_scraper.py 185-340 and 64-115)

\* 277-283: the src of the thumbnail image, None when it is missing, empty
\* or ends in "html"
UsableSrc == <<"src">>
Thumbnails == {UsableSrc, None}

\* 285-294: the record of a video
YouTubeRecord(link, thumbnail) == [link |-> link, thumbnail |-> thumbnail]

\* 338-340: the outermost except clause returns an empty list
YouTubeFail ==
    /\ pc' = "done"
    /\ result' = <<>>
    /\ failed' = TRUE

\* 188-225: load the results page (the errors of the sort menu are caught at
\* 217), then the empty accumulators
YouTubeStart ==
    /\ routine = "youtube" /\ pc = "start"
    /\ \/ /\ videos_data' = <<>>
          /\ processed_videos' = {}
          /\ last_video_count' = 0
          /\ no_new_videos_count' = 0
          /\ pc' = "loop"
          /\ UNCHANGED <<result, failed>>
       \/ /\ YouTubeFail
          /\ UNCHANGED <<videos_data, processed_videos, last_video_count,
                         no_new_videos_count>>
    /\ UNCHANGED <<fieldVars, routine, last_height, examined, lastNode, nextResult, max_videos,
                   video_elements, no_change_count, amazonVars, bbcVars, googleVars, mainVars, persisted>>

\* 229-235 and 324-329: the loop test; the wait for a video element and
\* find_elements, which returns the result list as it has grown so far; an
\* exception (wait timeout, stale list) counts as a round without new videos
YouTubeWhile ==
    /\ routine = "youtube" /\ pc = "loop"
    /\ IF Len(videos_data) < max_videos
       THEN \/ \E more \in SeqsUpTo(Nodes, MaxNodes - Len(video_elements)) :
                  /\ Len(video_elements \o more) >= 1
                  /\ video_elements' = video_elements \o more
                  /\ examined' = 0
                  /\ pc' = "extract"
                  /\ UNCHANGED <<result, no_new_videos_count>>
            \/ /\ no_new_videos_count' = no_new_videos_count + 1
               /\ IF no_new_videos_count' >= max_retries
                  THEN Return(videos_data)
                  ELSE UNCHANGED <<pc, result>>
               /\ UNCHANGED <<video_elements, examined>>
       ELSE /\ Return(videos_data)
            /\ UNCHANGED <<video_elements, examined, no_new_videos_count>>
    /\ UNCHANGED <<fieldVars, routine, failed, last_height, lastNode, nextResult, max_videos,
                   videos_data, processed_videos, last_video_count, no_change_count,
                   amazonVars, bbcVars, googleVars, mainVars, persisted>>

\* YouTubeAfterLoop with the test at 308 written "> max_retries"
YouTubeAfterLoop_OffByOne(vd) ==
    /\ no_new_videos_count' =
           IF Len(vd) = last_video_count THEN no_new_videos_count + 1 ELSE 0
    /\ IF Len(vd) = last_video_count /\ no_new_videos_count' > max_retries
       THEN /\ Return(vd)
            /\ UNCHANGED <<last_video_count, last_height, no_change_count>>
       ELSE /\ last_video_count' = Len(vd)
            /\ IF Len(vd) >= max_videos
               THEN /\ Return(vd)
                    /\ UNCHANGED <<last_height, no_change_count>>
               ELSE \/ \E h \in Heights :
                          /\ last_height' = h
                          /\ no_change_count' = 0
                          /\ pc' = "scroll"
                          /\ UNCHANGED result
                    \/ /\ pc' = "loop"
                       /\ UNCHANGED <<result, last_height, no_change_count>>

\* YouTubeAfterLoop without "last_video_count = len(videos_data)" at 314
YouTubeAfterLoop_NoCount(vd) ==
    /\ no_new_videos_count' =
           IF Len(vd) = last_video_count THEN no_new_videos_count + 1 ELSE 0
    /\ UNCHANGED last_video_count
    /\ IF Len(vd) = last_video_count /\ no_new_videos_count' >= max_retries
       THEN /\ Return(vd)
            /\ UNCHANGED <<last_height, no_change_count>>
       ELSE IF Len(vd) >= max_videos
            THEN /\ Return(vd)
                 /\ UNCHANGED <<last_height, no_change_count>>
            ELSE \/ \E h \in Heights :
                       /\ last_height' = h
                       /\ no_change_count' = 0
                       /\ pc' = "scroll"
                       /\ UNCHANGED result
                 \/ /\ pc' = "loop"
                    /\ UNCHANGED <<result, last_height, no_change_count>>

\* 304-322 and 66-72: after the for loop over the new elements, for the
\* accumulated list vd: count the round, test the target, and start
\* _human_like_scroll, whose first height reading may raise (caught at 114)
YouTubeAfterLoop(vd) ==
    /\ no_new_videos_count' =
           IF Len(vd) = last_video_count THEN no_new_videos_count + 1 ELSE 0
    /\ IF Len(vd) = last_video_count /\ no_new_videos_count' >= max_retries
       THEN \* 308-310: break
            /\ Return(vd)
            /\ UNCHANGED <<last_video_count, last_height, no_change_count>>
       ELSE /\ last_video_count' = Len(vd)
            /\ IF Len(vd) >= max_videos
               THEN \* 317-318: break
                    /\ Return(vd)
                    /\ UNCHANGED <<last_height, no_change_count>>
               ELSE \* 322: self._human_like_scroll()
                    \/ \E h \in Heights :
                          /\ last_height' = h
                          /\ no_change_count' = 0
                          /\ pc' = "scroll"
                          /\ UNCHANGED result
                    \/ /\ pc' = "loop"
                       /\ UNCHANGED <<result, last_height, no_change_count>>

\* YouTubeExtract without the lookup "link in processed_videos" at 249
YouTubeExtract_NoLookup ==
    /\ routine = "youtube" /\ pc = "extract"
    /\ last_video_count + examined < Len(video_elements)
    /\ Len(videos_data) < max_videos
    /\ LET video == video_elements[last_video_count + examined + 1]
           link == video.url
       IN  /\ lastNode' = video
           /\ IF video.err \/ link = None
              THEN UNCHANGED <<videos_data, processed_videos>>
              ELSE \E thumbnail \in Thumbnails :
                      /\ videos_data' = Append(videos_data,
                                                YouTubeRecord(link, thumbnail))
                      /\ processed_videos' = processed_videos \cup {link}
    /\ examined' = examined + 1
    /\ IF Len(videos_data') >= max_videos
       THEN YouTubeAfterLoop(videos_data')
       ELSE UNCHANGED <<pc, result, last_video_count, no_new_videos_count,
                        last_height, no_change_count>>
    /\ UNCHANGED <<fieldVars, routine, failed, nextResult, max_videos, video_elements,
                   amazonVars, bbcVars, googleVars, mainVars, persisted>>

\* YouTubeExtract without "processed_videos.add(link)" at 297
YouTubeExtract_NoAdd ==
    /\ routine = "youtube" /\ pc = "extract"
    /\ last_video_count + examined < Len(video_elements)
    /\ Len(videos_data) < max_videos
    /\ LET video == video_elements[last_video_count + examined + 1]
           link == video.url
       IN  /\ lastNode' = video
           /\ IF video.err \/ link = None \/ link \in processed_videos
              THEN UNCHANGED videos_data
              ELSE \E thumbnail \in Thumbnails :
                      videos_data' = Append(videos_data, YouTubeRecord(link, thumbnail))
    /\ UNCHANGED processed_videos
    /\ examined' = examined + 1
    /\ IF Len(videos_data') >= max_videos
       THEN YouTubeAfterLoop(videos_data')
       ELSE UNCHANGED <<pc, result, last_video_count, no_new_videos_count,
                        last_height, no_change_count>>
    /\ UNCHANGED <<fieldVars, routine, failed, nextResult, max_videos, video_elements,
                   amazonVars, bbcVars, googleVars, mainVars, persisted>>

\* 238-302: one element of video_elements[last_video_count:]; reaching the
\* target makes the next pass of the for loop break (239-240)
YouTubeExtract ==
    /\ routine = "youtube" /\ pc = "extract"
    /\ last_video_count + examined < Len(video_elements)
    /\ Len(videos_data) < max_videos
    /\ LET video == video_elements[last_video_count + examined + 1]
           link == video.url
       IN  /\ lastNode' = video
           /\ IF video.err \/ link = None \/ link \in processed_videos
              THEN UNCHANGED <<videos_data, processed_videos>>
              ELSE \E thumbnail \in Thumbnails :
                      /\ videos_data' = Append(videos_data,
                                                YouTubeRecord(link, thumbnail))
                      /\ processed_videos' = processed_videos \cup {link}
    /\ examined' = examined + 1
    /\ IF Len(videos_data') >= max_videos
       THEN YouTubeAfterLoop(videos_data')
       ELSE UNCHANGED <<pc, result, last_video_count, no_new_videos_count,
                        last_height, no_change_count>>
    /\ UNCHANGED <<fieldVars, routine, failed, nextResult, max_videos, video_elements,
                   amazonVars, bbcVars, googleVars, mainVars, persisted>>

\* 304-322: the for loop ran out of elements; its loop variable is not read
\* again
YouTubeRoundEnd ==
    /\ routine = "youtube" /\ pc = "extract"
    /\ last_video_count + examined >= Len(video_elements)
    /\ YouTubeAfterLoop(videos_data)
    /\ examined' = 0
    /\ lastNode' = NoNode
    /\ UNCHANGED <<fieldVars, routine, failed, nextResult, max_videos,
                   videos_data, processed_videos, video_elements, amazonVars,
                   bbcVars, googleVars, mainVars, persisted>>

\* YouTubeHumanLikeScroll without the else branch at 109-110: a changed
\* reading leaves no_change_count as it is
YouTubeHumanLikeScroll_NoReset ==
    /\ routine = "youtube" /\ pc = "scroll"
    /\ \/ \E new_height \in Heights :
              IF new_height = last_height
              THEN IF no_change_count + 1 >= max_no_change
                   THEN \E final_height \in Heights :
                            IF final_height = new_height
                            THEN /\ pc' = "loop"
                                 /\ no_change_count' = no_change_count + 1
                                 /\ UNCHANGED last_height
                            ELSE /\ no_change_count' = 0
                                 /\ last_height' = final_height
                                 /\ UNCHANGED pc
                   ELSE /\ no_change_count' = no_change_count + 1
                        /\ UNCHANGED <<last_height, pc>>
              ELSE /\ last_height' = new_height
                   /\ UNCHANGED <<pc, no_change_count>>
       \/ pc' = "loop" /\ UNCHANGED <<last_height, no_change_count>>
    /\ UNCHANGED <<fieldVars, routine, result, failed, examined, lastNode, nextResult,
                   max_videos, videos_data, processed_videos, last_video_count,
                   no_new_videos_count, video_elements, amazonVars, bbcVars,
                   googleVars, mainVars, persisted>>

\* 75-112: one pass of the while True of _human_like_scroll; any exception
\* ends the routine (114-115)
YouTubeHumanLikeScroll ==
    /\ routine = "youtube" /\ pc = "scroll"
    /\ \/ \E new_height \in Heights :
              IF new_height = last_height
              THEN IF no_change_count + 1 >= max_no_change
                   THEN \E final_height \in Heights :
                            IF final_height = new_height
                            THEN \* 104-105: break
                                 /\ pc' = "loop"
                                 /\ no_change_count' = no_change_count + 1
                                 /\ UNCHANGED last_height
                            ELSE \* 107-108, 112
                                 /\ no_change_count' = 0
                                 /\ last_height' = final_height
                                 /\ UNCHANGED pc
                   ELSE /\ no_change_count' = no_change_count + 1
                        /\ UNCHANGED <<last_height, pc>>
              ELSE /\ no_change_count' = 0
                   /\ last_height' = new_height
                   /\ UNCHANGED pc
       \/ pc' = "loop" /\ UNCHANGED <<last_height, no_change_count>>
    /\ UNCHANGED <<fieldVars, routine, result, failed, examined, lastNode, nextResult,
                   max_videos, videos_data, processed_videos, last_video_count,
                   no_new_videos_count, video_elements, amazonVars, bbcVars,
                   googleVars, mainVars, persisted>>

YouTubeNext ==
    \/ YouTubeStart \/ YouTubeWhile \/ YouTubeExtract \/ YouTubeRoundEnd
    \/ YouTubeHumanLikeScroll

----------------------------------------------------------------------------
\* The entry points: main.main (main.py 36-82), amazon_main.main
\* (amazon_main.py 5-36) and bbc_main.main (bbc_main.py 14-59)

\* main.py 61-64, amazon_main.py 6-12, bbc_main.py 16-25: up to the
\* construction of the scraper, which starts the browser.  An exception is
\* caught by the except Exception clause of each entry point; the sys.exit
\* of check_chromedriver (bbc_main.py 5-12) passes it.  bbc_main calls the
\* traversal next, which loads the search page itself.
MainCreate ==
    /\ entry # "direct" /\ mpc = "init"
    /\ \/ /\ scraper' = "created"
          /\ IF entry = "bbc_main"
             THEN mpc' = "scrape" /\ pc' = "start"
             ELSE mpc' = "search" /\ UNCHANGED pc
       \/ /\ mpc' = "finally"
          /\ UNCHANGED <<scraper, pc>>
       \/ /\ entry = "bbc_main"
          /\ mpc' = "finally_raising"
          /\ UNCHANGED <<scraper, pc>>
    /\ UNCHANGED <<fieldVars, routine, result, failed, last_height, examined, lastNode,
                   nextResult, amazonVars, bbcVars, googleVars, youtubeVars,
                   entry, closed, signal, persisted>>

\* main.py 66-70, amazon_main.py 15-20: search_products (amazon_scraper.py
\* 66-86), which raises again what it catches, then the call of
\* scrape_products
MainSearch ==
    /\ entry # "direct" /\ mpc = "search"
    /\ \/ mpc' = "scrape" /\ pc' = "start"
       \/ mpc' = "finally" /\ UNCHANGED pc
    /\ UNCHANGED <<fieldVars, routine, result, failed, last_height, examined, lastNode,
                   nextResult, amazonVars, bbcVars, googleVars, youtubeVars,
                   entry, scraper, closed, signal, persisted>>

\* the traversal returned.  main.py 72-74: save_results (amazon_scraper.py
\* 469-493) returns at once without products and writes them otherwise;
\* amazon_main.py 22-30: the same behind "if products"; an error of the
\* writing is caught by the except Exception clause.  bbc_main.py 38-46
\* only prints.
MainSave ==
    /\ entry # "direct" /\ mpc = "scrape" /\ pc = "done"
    /\ IF routine = "amazon" /\ products # <<>>
       THEN persisted' \in {products, persisted}
       ELSE UNCHANGED persisted
    /\ mpc' = "finally"
    /\ UNCHANGED <<fieldVars, common, amazonVars, bbcVars, googleVars, youtubeVars,
                   entry, scraper, closed, signal>>

\* MainFinally with close() at the end of the try block instead of the
\* finally clause: an exception on its way out of main skips it
MainFinally_CloseInTry ==
    /\ entry # "direct" /\ mpc \in {"finally", "finally_raising"}
    /\ IF scraper = "created" /\ mpc = "finally"
       THEN /\ closed' = TRUE
            /\ mpc' \in {"returned", "raised"}
       ELSE /\ mpc' = (IF mpc = "finally" /\ ~(entry = "amazon_main" /\ scraper = "unbound")
                       THEN "returned" ELSE "raised")
            /\ UNCHANGED closed
    /\ UNCHANGED <<fieldVars, common, amazonVars, bbcVars, googleVars, youtubeVars,
                   entry, scraper, signal, persisted>>

\* the finally clause: main.py 80-82 ('scraper' in locals()), amazon_main.py
\* 34-36 and bbc_main.py 55-59 (if scraper:).  In amazon_main.py scraper is
\* not bound before the constructor returned, and reading it raises.
\* close() (amazon_scraper.py 495-498, bbc_scraper.py 397-400) quits the
\* driver, which may raise.  mpc "finally_raising": an exception no except
\* clause caught leaves main after the finally clause.
MainFinally ==
    /\ entry # "direct" /\ mpc \in {"finally", "finally_raising"}
    /\ IF scraper = "created"
       THEN /\ closed' = TRUE
            /\ mpc' \in (IF mpc = "finally" THEN {"returned", "raised"} ELSE {"raised"})
       ELSE /\ mpc' = (IF mpc = "finally" /\ ~(entry = "amazon_main" /\ scraper = "unbound")
                       THEN "returned" ELSE "raised")
            /\ UNCHANGED closed
    /\ UNCHANGED <<fieldVars, common, amazonVars, bbcVars, googleVars, youtubeVars,
                   entry, scraper, signal, persisted>>

\* The user presses Ctrl-C while an entry point runs its try block:
\* KeyboardInterrupt is raised at the statement that runs.  It is no
\* Exception, so the except Exception clauses of the scrapers
\* (amazon_scraper.py 459, 463; bbc_scraper.py 362, 366, 393) and of
\* amazon_main.py (32) let it pass; main.py (76) and bbc_main.py (48) catch
\* it.  A traversal it leaves returns nothing, and the local variables of
\* its frame are gone; self.products of AmazonScraper stays, and
\* articles_data is kept to tell which records had been accepted.
Interrupt ==
    /\ entry # "direct" /\ signal = "none"
    /\ mpc \in {"init", "search", "scrape"}
    /\ signal' = "raised"
    /\ mpc' = (IF entry = "amazon_main" THEN "finally_raising" ELSE "finally")
    /\ IF pc \in {"main", "done"}
       THEN UNCHANGED <<pc, last_height, examined, lastNode, nextResult, page,
                        bbc_processed_urls, seen_links, unique_articles,
                        page_number, scroll_pass>>
       ELSE /\ pc' = "interrupted"
            /\ last_height' = 1
            /\ examined' = 0
            /\ lastNode' = NoNode
            /\ nextResult' = "none"
            /\ page' = 1
            /\ bbc_processed_urls' = {}
            /\ seen_links' = {}
            /\ unique_articles' = <<>>
            /\ page_number' = 1
            /\ scroll_pass' = 0
    /\ UNCHANGED <<fieldVars, routine, result, failed, max_pages, products, max_articles,
                   articles_data, googleVars, youtubeVars, entry, scraper, closed,
                   persisted>>

\* In BBCScraper.scrape_news the bare except clauses around the reads of a
\* card (bbc_scraper.py 166, 177, 211, 265, 291) and around the click of the
\* next-page link (348) catch KeyboardInterrupt as well: the traversal goes
\* on as after any error of that read.
InterruptSwallowed ==
    /\ entry = "bbc_main" /\ signal = "none"
    /\ mpc = "scrape" /\ pc \in {"filter", "extract", "next"}
    /\ signal' = "swallowed"
    /\ UNCHANGED <<fieldVars, common, amazonVars, bbcVars, googleVars, youtubeVars,
                   entry, mpc, scraper, closed, persisted>>

MainNext ==
    \/ MainCreate \/ MainSearch \/ MainSave \/ MainFinally
    \/ Interrupt \/ InterruptSwallowed

----------------------------------------------------------------------------
Next == AmazonNext \/ BBCNext \/ GoogleNext \/ YouTubeNext \/ MainNext

Spec == Init /\ [][Next]_vars

\* The interpreter runs the next statement of a traversal that has not
\* returned: the program does not stop by itself in the middle of a loop.
FairSpec == Spec /\ WF_vars(Next)

----------------------------------------------------------------------------
\* The texts of a product card and their normalizers
\* (amazon_scraper.py 129-137, 230-259; utils.py 42-54).
\*
\* A text is a sequence of symbols: one character (" ", "-", ",", "$", ".",
\* a backslash, a double quote, the digits "0", "1", "9"), or a run of
\* characters that the code treats as a whole: the words "item" and "ITEM"
\* (the same word in two casings), "only" and "left", the phrases
\* "by Amazon", "arrives by", "left in stock", "out of stock", "out of 5" and
\* "Out Of 5", the HTML entity "&amp;", the string "N/A" and the number "4.5".

\* the symbols of s
Range(s) == {s[i] : i \in 1..Len(s)}

\* str.isspace of a one-character symbol
IsSpace(c) == c \in {" ", "\n"}

\* the symbols that begin and end with a word character (\w)
WordSymbols == {"item", "ITEM", "by Amazon", "N/A", "0", "1", "9", "4.5",
                "out of 5", "Out Of 5", "arrives by", "left in stock",
                "out of stock", "only", "left"}

\* len(c) of a symbol
SymLen(c) ==
    CASE c \in {"item", "ITEM"} -> 4
      [] c = "by Amazon" -> 9
      [] c = "&amp;" -> 5
      [] c \in {"N/A", "4.5"} -> 3
      [] c \in {"out of 5", "Out Of 5"} -> 8
      [] c = "left in stock" -> 13
      [] c = "out of stock" -> 12
      [] c = "arrives by" -> 10
      [] c \in {"only", "left"} -> 4
      [] OTHER -> 1

\* len(s)
RECURSIVE CharLen(_)
CharLen(s) == IF s = <<>> THEN 0 ELSE SymLen(Head(s)) + CharLen(Tail(s))

\* str.lower of a symbol
LowerSym(c) ==
    CASE c = "ITEM" -> "item"
      [] c = "Out Of 5" -> "out of 5"
      [] c = "by Amazon" -> "by amazon"
      [] OTHER -> c

\* s.lower()
lower(s) == [i \in 1..Len(s) |-> LowerSym(s[i])]

RECURSIVE lstrip(_)
lstrip(s) == IF s # <<>> /\ IsSpace(Head(s)) THEN lstrip(Tail(s)) ELSE s

RECURSIVE rstrip(_)
rstrip(s) ==
    IF s # <<>> /\ IsSpace(s[Len(s)]) THEN rstrip(SubSeq(s, 1, Len(s) - 1)) ELSE s

\* s.strip()
strip(s) == rstrip(lstrip(s))

\* re.sub(r'\s+', ' ', s)
RECURSIVE CollapseSpaces(_)
CollapseSpaces(s) ==
    IF s = <<>> THEN <<>>
    ELSE IF IsSpace(Head(s)) THEN <<" ">> \o CollapseSpaces(lstrip(s))
         ELSE <<Head(s)>> \o CollapseSpaces(Tail(s))

\* " ".join(s.split())
JoinSplit(s) == strip(CollapseSpaces(s))

\* s.split(c): the parts of s between the occurrences of the character c
RECURSIVE Split(_, _)
Split(s, c) ==
    LET head == SplitFirst(s, <<c>>)
    IN  IF head = s THEN <<s>>
        ELSE <<head>> \o Split(SubSeq(s, Len(head) + 2, Len(s)), c)

\* sep.join(parts)
RECURSIVE Join(_, _)
Join(parts, sep) ==
    IF parts = <<>> THEN <<>>
    ELSE IF Len(parts) = 1 THEN parts[1]
         ELSE parts[1] \o sep \o Join(Tail(parts), sep)

\* len(s.split()): the whitespace-separated words of s; the phrases with
\* inner spaces count their own words
RECURSIVE WordCount(_)
WordCount(s) ==
    LET t == lstrip(s)
        InnerSpaces(c) == CASE c \in {"by Amazon", "arrives by"} -> 1
                            [] c \in {"out of 5", "Out Of 5", "left in stock",
                                      "out of stock"} -> 2
                            [] OTHER -> 0
    IN  IF t = <<>> THEN 0
        ELSE IF Len(t) = 1 \/ IsSpace(t[2])
             THEN 1 + InnerSpaces(t[1]) + WordCount(Tail(t))
             ELSE InnerSpaces(t[1]) + WordCount(Tail(t))

\* AmazonScraper._clean_text (129-137)
_clean_text(text) ==
    IF text = <<>> \/ text = None \/ text = NA THEN NA
    ELSE strip(Replace(Replace(JoinSplit(text), <<"\\">>, <<>>), <<"\"">>, <<>>))

\* utils.clean_text (42-54)
clean_text(text) == IF text = None THEN <<>> ELSE JoinSplit(text)

\* 233: re.sub(r'\s+by Amazon\b', '', title, flags=re.IGNORECASE)
RECURSIVE RemoveByAmazon(_)
RemoveByAmazon(s) ==
    IF s = <<>> THEN <<>>
    ELSE IF IsSpace(Head(s))
         THEN LET rest == lstrip(s)
              IN  IF /\ rest # <<>> /\ Head(rest) = "by Amazon"
                     /\ (Len(rest) = 1 \/ rest[2] \notin WordSymbols)
                  THEN RemoveByAmazon(Tail(rest))
                  ELSE SubSeq(s, 1, Len(s) - Len(rest)) \o
                       (IF rest = <<>> THEN <<>>
                        ELSE <<Head(rest)>> \o RemoveByAmazon(Tail(rest)))
         ELSE <<Head(s)>> \o RemoveByAmazon(Tail(s))

\* 246-252: the parts that are not empty and not equal, ignoring case, to an
\* earlier part
RECURSIVE UniqueParts(_, _)
UniqueParts(parts, seen) ==
    IF parts = <<>> THEN <<>>
    ELSE LET part == strip(Head(parts))
             cleaned_part == lower(part)
         IN  IF cleaned_part \notin seen /\ Len(cleaned_part) > 0
             THEN <<part>> \o UniqueParts(Tail(parts), seen \cup {cleaned_part})
             ELSE UniqueParts(Tail(parts), seen)

\* 256: re.sub(r'\s*-\s*', ' - ', title)
RECURSIVE SpaceHyphens(_)
SpaceHyphens(s) ==
    IF s = <<>> THEN <<>>
    ELSE IF Head(lstrip(s) \o <<"">>) = "-"
         THEN <<" ", "-", " ">> \o SpaceHyphens(lstrip(Tail(lstrip(s))))
         ELSE <<Head(s)>> \o SpaceHyphens(Tail(s))

\* 231-259: the cleanup of a title other than "N/A"
TitleCleanup(title) ==
    LET no_phrase == RemoveByAmazon(title)
        spaced == Replace(CollapseSpaces(no_phrase), <<" ", ",">>, <<",">>)
        no_entity == Replace(spaced, <<"&amp;">>, <<" ">>)
        parts == Split(no_entity, "-")
        unique == IF Len(parts) > 1
                  THEN Join(UniqueParts(parts, {}), <<" ", "-", " ">>)
                  ELSE no_entity
    IN  JoinSplit(SpaceHyphens(unique))

----------------------------------------------------------------------------
\* AmazonScraper._extract_product_data and _extract_price
\* (amazon_scraper.py 139-394)
\*
\* A product card is what the selectors of the code find in it:
\*   err         TRUE when reading innerHTML raises (198)
\*   link_title  the title attribute or text of 'h2 a.a-link-normal', None
\*               without such an element (204-206)
\*   titles      the title_text of the elements the title selectors find,
\*               in the order of the two for loops (222-226)
\*   details     the text of the elements the details selectors find (271-273)
\*   hrefs       for each link selector the href of its first element, None
\*               when there is none (288-290)
\*   prices      for each price selector the text of its first element, None
\*               when there is none (155-157)
\*   aria        the aria-label of the first element whose label starts
\*               with "$", None without one (165-167)
\*   page_text   soup.get_text() (173)
\*   ratings, reviews, deliveries, stocks
\*               for each selector of the chain the text (or label) of its
\*               first element, None when there is none
\*   sponsored   TRUE when a sponsored label is found (379)

\* the first entry of a chain that is not None, None when there is none
RECURSIVE FirstFound(_)
FirstFound(chain) ==
    IF chain = <<>> THEN None
    ELSE IF Head(chain) # None THEN Head(chain) ELSE FirstFound(Tail(chain))

IsDigit(c) == c \in {"0", "1", "9"}

\* float(s) does not raise: digits with at most one point and at least one
\* digit, or the number "4.5"
ParsesAsFloat(s) ==
    \/ s = <<"4.5">>
    \/ /\ \A i \in 1..Len(s) : IsDigit(s[i]) \/ s[i] = "."
       /\ \E i \in 1..Len(s) : IsDigit(s[i])
       /\ \A i, j \in 1..Len(s) : (s[i] = "." /\ s[j] = ".") => i = j

\* the longest prefix of s whose symbols are all in S
RECURSIVE TakeWhile(_, _)
TakeWhile(s, S) ==
    IF s # <<>> /\ Head(s) \in S THEN <<Head(s)>> \o TakeWhile(Tail(s), S) ELSE <<>>

\* 171-173: re.findall(r'\$[\d,]+\.?\d{0,2}', text)
RECURSIVE findall_price(_)
findall_price(text) ==
    IF text = <<>> THEN <<>>
    ELSE LET whole == TakeWhile(Tail(text), {"0", "1", "9", ","})
             after == SubSeq(text, Len(whole) + 2, Len(text))
             point == IF after # <<>> /\ Head(after) = "." THEN <<".">> ELSE <<>>
             rest == SubSeq(after, Len(point) + 1, Len(after))
             cents == TakeWhile(SubSeq(rest, 1, IF Len(rest) < 2 THEN Len(rest) ELSE 2),
                                {"0", "1", "9"})
             match == <<"$">> \o whole \o point \o cents
         IN  IF Head(text) = "$" /\ whole # <<>>
             THEN <<match>> \o findall_price(SubSeq(text, Len(match) + 1, Len(text)))
             ELSE findall_price(Tail(text))

\* 176-183: the first match that float() accepts without "$" and ","
RECURSIVE FirstValidPrice(_)
FirstValidPrice(matches) ==
    IF matches = <<>> THEN NA
    ELSE IF ParsesAsFloat(SelectSeq(Head(matches), LAMBDA c : c \notin {"$", ","}))
         THEN Head(matches)
         ELSE FirstValidPrice(Tail(matches))

\* 155-161: the chain of the price selectors
RECURSIVE PriceChain(_)
PriceChain(prices) ==
    IF prices = <<>> THEN NA
    ELSE IF Head(prices) # None /\ strip(Head(prices)) # <<>>
         THEN LET price == _clean_text(Head(prices))
              IN  IF (\A i \in 1..Len(price) : price[i] # "$") /\ price # NA
                  THEN <<"$">> \o price
                  ELSE price
         ELSE PriceChain(Tail(prices))

\* AmazonScraper._extract_price (139-185)
_extract_price(card) ==
    LET method1 == PriceChain(card.prices)
        method2 == IF method1 = NA /\ card.aria # None
                   THEN SplitFirst(lstrip(card.aria), <<" ">>)
                   ELSE method1
    IN  IF method2 = NA THEN FirstValidPrice(findall_price(card.page_text))
        ELSE method2

\* 222-228: every element with a longer text than the title so far
\* replaces it
RECURSIVE TitleChain(_, _)
TitleChain(titles, title) ==
    IF titles = <<>> THEN title
    ELSE LET title_text == Head(titles)
         IN  IF title_text \notin {<<>>, None}
                /\ CharLen(strip(title_text)) > CharLen(title)
             THEN TitleChain(Tail(titles), _clean_text(title_text))
             ELSE TitleChain(Tail(titles), title)

\* 270-275: the texts of the details elements that are added to a short
\* title
RECURSIVE AdditionalInfo(_, _)
AdditionalInfo(details, title) ==
    IF details = <<>> THEN <<>>
    ELSE LET text == _clean_text(Head(details))
         IN  IF text # <<>> /\ ~Contains(title, text) /\ CharLen(text) > 5
             THEN <<text>> \o AdditionalInfo(Tail(details), title)
             ELSE AdditionalInfo(Tail(details), title)

\* 200-278: the title
ExtractTitle(card) ==
    LET from_link == IF /\ card.link_title \notin {None, <<>>}
                        /\ CharLen(strip(card.link_title)) > 10
                     THEN _clean_text(card.link_title)
                     ELSE NA
        found == IF from_link = NA \/ WordCount(from_link) < 4
                 THEN TitleChain(card.titles, from_link)
                 ELSE from_link
        cleaned == TitleCleanup(found)
        additional_info == AdditionalInfo(card.details, cleaned)
    IN  IF found = NA THEN NA
        ELSE IF WordCount(cleaned) < 4 /\ additional_info # <<>>
             THEN cleaned \o <<" ", "-", " ">> \o Join(additional_info, <<" ", "-", " ">>)
             ELSE cleaned

\* 306-316: the chain of the rating selectors; rating is assigned before
\* float() tests it
RECURSIVE RatingChain(_, _)
RatingChain(ratings, rating) ==
    IF ratings = <<>> THEN rating
    ELSE LET rating_text == Head(ratings)
         IN  IF rating_text # None
                /\ \E i \in 1..Len(rating_text) : LowerSym(rating_text[i]) = "out of 5"
             THEN LET before == strip(SplitFirst(rating_text, <<"out of 5">>))
                  IN  IF ParsesAsFloat(before) THEN before
                      ELSE RatingChain(Tail(ratings), before)
             ELSE RatingChain(Tail(ratings), rating)

\* ReviewChain without the test "if count.isdigit()" at 331
RECURSIVE ReviewChain_NoDigitTest(_)
ReviewChain_NoDigitTest(reviews) ==
    IF reviews = <<>> THEN <<"0">>
    ELSE IF Head(reviews) # None THEN SelectSeq(strip(Head(reviews)), IsDigit)
         ELSE ReviewChain_NoDigitTest(Tail(reviews))

\* 327-333: the chain of the review selectors
RECURSIVE ReviewChain(_)
ReviewChain(reviews) ==
    IF reviews = <<>> THEN <<"0">>
    ELSE LET count == IF Head(reviews) = None THEN <<>>
                      ELSE SelectSeq(strip(Head(reviews)), IsDigit)
         IN  IF count # <<>> THEN count ELSE ReviewChain(Tail(reviews))

\* str.title of a symbol of a lower-case text
TitleSym(c) == IF c = "item" THEN "Item" ELSE c

\* 345-354: the delivery text of the first element found; a text with
\* "arrives by <date>" is rewritten
ExtractDelivery(card) ==
    LET delivery_text == FirstFound(card.deliveries)
        delivery == _clean_text(delivery_text)
        low == lower(delivery)
        after == SubSeq(low, Len(SplitFirst(low, <<"arrives by">>)) + 2, Len(low))
        date == TakeWhile(Tail(after), {c \in Range(low) : c # "."})
    IN  IF delivery_text = None THEN NA
        ELSE IF Contains(low, <<"arrives by">>) /\ after # <<>> /\ IsSpace(Head(after))
                /\ date # <<>>
             THEN <<"Delivery by ">> \o [i \in 1..Len(strip(date)) |-> TitleSym(strip(date)[i])]
             ELSE delivery

\* 366-376: the status text of the first element found
ExtractStockStatus(card) ==
    LET status_text == FirstFound(card.stocks)
        low == IF status_text = None THEN <<>> ELSE lower(status_text)
    IN  IF "left in stock" \in Range(low) THEN _clean_text(status_text)
        ELSE IF "out of stock" \in Range(low) THEN <<"Out of Stock">>
        ELSE IF "only" \in Range(low) /\ "left" \in Range(low)
             THEN _clean_text(status_text)
        ELSE <<"In Stock">>

\* the names of the fields of a record, in the order of the dict
Keys(record) == [i \in 1..Len(record) |-> record[i][1]]

\* record[name]
Field(record, name) == record[CHOOSE i \in 1..Len(record) : record[i][1] = name][2]

\* AmazonScraper._extract_product_data (187-394): the record of a card, None
\* when reading the card raises
_extract_product_data(card) ==
    IF card.err THEN None
    ELSE << <<"title", ExtractTitle(card)>>,
            <<"product_link", AmazonLink([url |-> FirstFound(card.hrefs)])>>,
            <<"price", _extract_price(card)>>,
            <<"rating", RatingChain(card.ratings, NA)>>,
            <<"review_count", ReviewChain(card.reviews)>>,
            <<"delivery", ExtractDelivery(card)>>,
            <<"stock_status", ExtractStockStatus(card)>>,
            <<"sponsored", card.sponsored>> >>

----------------------------------------------------------------------------
\* The body of the second for loop of BBCScraper.scrape_news
\* (bbc_scraper.py 182-329)
\*
\* An article card is what the selectors of the code find in it:
\*   err       TRUE when reading the card raises outside the inner handlers
\*             (327-329)
\*   headings  for each title selector NoElement when find_element raises,
\*             else the text of the element and its link: the href of the element
\*             or of its ancestor <a>, None when the attribute is missing,
\*             Raises when the ancestor lookup raises (199-212)
\*   dates     for each date selector None when find_element raises, else
\*             what the element offers: <<"datetime">> (an ISO datetime
\*             attribute), <<"seconds">> (a data-seconds attribute of
\*             digits), <<"text">> (only a text), <<"bare">> (nothing)
\*             (236-266)
\*   descs     for each description selector None when find_element raises,
\*             else the text of the element (285-292)

Raises == <<"raises">>
NoElement == [text |-> None, link |-> None]

\* links of the BBC site: two news articles and a page that is no article
NewsA == <<"/news/", "a">>
NewsB == <<"/news/", "b">>
SportA == <<"/sport/", "a">>

\* 199-212: the chain of the title selectors, from the title and link
\* assigned so far; the title is assigned before the ancestor lookup
RECURSIVE HeadingChain(_, _, _)
HeadingChain(headings, title, link) ==
    IF headings = <<>> THEN <<title, link>>
    ELSE LET element == Head(headings)
             new_title == strip(element.text)
             new_link == IF element.link = Raises THEN link ELSE element.link
         IN  IF element = NoElement THEN HeadingChain(Tail(headings), title, link)
             ELSE IF element.link # Raises /\ new_title # <<>>
                     /\ new_link \notin {None, <<>>} /\ "/news/" \in Range(new_link)
                  THEN <<new_title, new_link>>
                  ELSE HeadingChain(Tail(headings), new_title, new_link)

\* 226-273: the date; an element with a usable attribute ends the chain, a
\* text is kept when no earlier text was, and the time of the run stands in
\* when nothing was found
RECURSIVE DateChain(_, _)
DateChain(dates, date) ==
    IF dates = <<>> THEN (IF date = NA THEN <<"now">> ELSE date)
    ELSE CASE Head(dates) \in {<<"datetime">>, <<"seconds">>} -> <<"parsed">>
           [] Head(dates) = <<"text">> /\ date = NA -> DateChain(Tail(dates), <<"text">>)
           [] OTHER -> DateChain(Tail(dates), date)

\* 284-292: the chain of the description selectors; an empty text is
\* assigned and the chain goes on
RECURSIVE DescChain(_, _)
DescChain(descs, description) ==
    IF descs = <<>> THEN description
    ELSE IF Head(descs) = None THEN DescChain(Tail(descs), description)
         ELSE IF strip(Head(descs)) # <<>> THEN strip(Head(descs))
              ELSE DescChain(Tail(descs), strip(Head(descs)))

\* 184-310: article_data of a card, None when the card is skipped;
\* processed is processed_urls, the links of the records accepted so far
BBCArticleData(card, processed) ==
    LET heading == HeadingChain(card.headings, None, None)
        title == heading[1]
        link == heading[2]
        description == DescChain(card.descs, NA)
    IN  IF card.err THEN None
        ELSE IF title \in {None, <<>>} \/ link \in {None, <<>>}
                \/ "/news/" \notin Range(link)
             THEN None
        ELSE IF link \in processed \/ description = NA THEN None
        ELSE << <<"title", title>>,
                <<"description", description>>,
                <<"link", link>>,
                <<"date", DateChain(card.dates, NA)>> >>

----------------------------------------------------------------------------
\* Field extraction on its own: the for loop of a traversal over the cards
\* of one page (amazon_scraper.py 425-428, bbc_scraper.py 182-329), and the
\* text normalizers applied to a text and then to their own result.

\* a card on which no selector of a chain finds anything
PlainCard ==
    [site |-> "amazon", err |-> FALSE, link_title |-> None, titles |-> <<>>,
     details |-> <<>>, hrefs |-> <<UrlA>>, prices |-> <<>>, aria |-> None,
     page_text |-> <<>>, ratings |-> <<>>, reviews |-> <<>>, deliveries |-> <<>>,
     stocks |-> <<>>, sponsored |-> FALSE]

\* the texts the elements of a card offer to each chain
TitleTexts ==
    {<<"1">>, <<"item">>, <<"item", " ", "ITEM">>,
     <<"item", " ", "item", " ", "-", " ", "item", " ", "by Amazon">>,
     <<"item", " ", "1", " ", "9", " ", "0">>}
LinkTitles == {None, <<"item", " ", "item", " ", "item">>,
               <<"item", " ", "item", " ", "1", " ", "9">>}
DetailTexts == {<<"item", "1", "9">>}
PriceTexts ==
    {<<"$", "1", "9", ".", "9", "9">>, <<"1", "9", ".", "9", "9">>,
     <<"$", "1", ",", "0", "0", "0">>, <<"item">>, <<" ">>, NA}
AriaLabels == {None, <<"$", "1", "9", " ", "item">>}
PageTexts == {<<>>, <<"item", "$", ",", " ", "$", "9", ".", "9", "9", "9">>}
RatingTexts ==
    {<<"4.5", " ", "out of 5">>, <<"item", " ", "out of 5">>,
     <<"4.5", " ", "Out Of 5">>, <<"out of 5">>, <<"item">>}
ReviewTexts == {<<"1", ",", "9">>, <<"(", "9", ")">>, <<"item">>, <<>>}
DeliveryTexts == {<<"item">>, <<"arrives by", " ", "ITEM", ".", "item">>}
StockTexts == {<<"only", " ", "1", " ", "left in stock">>, <<"out of stock">>,
               <<"only", " ", "1", " ", "left">>, <<"item">>}

\* the chains of up to MaxSelectors selectors over the texts S
Chains(S) == SeqsUpTo(S \cup {None}, MaxSelectors)

\* the first card of a page: one chain of the card finds elements
AmazonCards ==
    {[PlainCard EXCEPT !.link_title = l, !.titles = c, !.details = d] :
        l \in LinkTitles, c \in SeqsUpTo(TitleTexts, MaxSelectors),
        d \in SeqsUpTo(DetailTexts, 1)}
    \cup {[PlainCard EXCEPT !.hrefs = c] : c \in Chains(Urls)}
    \cup {[PlainCard EXCEPT !.prices = c, !.aria = a, !.page_text = t] :
             c \in Chains(PriceTexts), a \in AriaLabels, t \in PageTexts}
    \cup {[PlainCard EXCEPT !.ratings = c] : c \in Chains(RatingTexts)}
    \cup {[PlainCard EXCEPT !.reviews = c] : c \in Chains(ReviewTexts)}
    \cup {[PlainCard EXCEPT !.deliveries = c] : c \in Chains(DeliveryTexts)}
    \cup {[PlainCard EXCEPT !.stocks = c] : c \in Chains(StockTexts)}

\* the cards after the first: a sponsored card, and one whose reading raises
LaterAmazonCards ==
    {[PlainCard EXCEPT !.sponsored = TRUE], [PlainCard EXCEPT !.err = TRUE]}

PlainArticle ==
    [site |-> "bbc", err |-> FALSE,
     headings |-> << [text |-> <<"item">>, link |-> NewsA] >>,
     dates |-> <<>>, descs |-> << <<"item">> >>]

Headings ==
    {[text |-> t, link |-> l] :
        t \in {<<"item">>, <<" ">>}, l \in {NewsA, SportA, None, Raises}}

BBCCards ==
    {[PlainArticle EXCEPT !.headings = c] :
        c \in SeqsUpTo(Headings \cup {NoElement}, MaxSelectors)}
    \cup {[PlainArticle EXCEPT !.dates = c] :
             c \in Chains({<<"datetime">>, <<"seconds">>, <<"text">>, <<"bare">>})}
    \cup {[PlainArticle EXCEPT !.descs = c] : c \in Chains({<<"item">>, <<" ">>})}

\* the cards after the first: the article of the plain card, another
\* article, and a card whose reading raises
LaterBBCCards ==
    {PlainArticle, [PlainArticle EXCEPT !.headings[1].link = NewsB],
     [PlainArticle EXCEPT !.err = TRUE]}

\* the characters of the texts handed to a normalizer
CleanTextAlphabet == {"item", " ", "\\", "\"", "N/A"}
TitleAlphabet == {"item", "ITEM", " ", "-", ",", "&amp;", "by Amazon"}
\* a backslash between spaces
SpacedBackslash == <<"item", " ", "\\", " ", "item">>
\* the characters of the URLs handed to _clean_url: encoded tokens of its
\* replacement table among them
UrlAlphabet == {"/", "a", "ref", "=", "\\", "%2F", "%3D", "%20"}
\* URLs with the marker "/ref=" plain, percent-encoded and escaped
MarkedUrls ==
    {UrlARef,
     <<"/", "a", "%2F", "ref", "=", "x">>,
     <<"/", "a", "\\", "/", "ref", "=", "x">>}

NormalizerInputs(f) ==
    CASE f = "_clean_text" ->
             SeqsUpTo(CleanTextAlphabet, MaxTextLen) \cup {None, SpacedBackslash}
      [] f = "clean_text" ->
             SeqsUpTo(CleanTextAlphabet, MaxTextLen) \cup {None, SpacedBackslash}
      [] f = "_clean_url" ->
             SeqsUpTo(UrlAlphabet, MaxTextLen) \cup MarkedUrls \cup {None, NA}
      [] OTHER -> SeqsUpTo(TitleAlphabet, MaxTextLen)

\* one application of the normalizer f; the title cleanup is skipped for
\* the title "N/A" (231)
Normalize(f, text) ==
    CASE f = "_clean_text" -> _clean_text(text)
      [] f = "clean_text" -> clean_text(text)
      [] f = "_clean_url" -> _clean_url(text)
      [] OTHER -> IF text = NA THEN NA ELSE TitleCleanup(text)

\* the traversal variables while no traversal runs
TraversalIdle ==
    /\ routine = "none" /\ entry = "direct" /\ mpc = "idle" /\ pc = "idle"
    /\ scraper = "none" /\ closed = FALSE /\ signal = "none" /\ persisted = <<>>
    /\ result = <<>> /\ failed = FALSE /\ last_height = 1 /\ examined = 0
    /\ lastNode = NoNode /\ nextResult = "none"
    /\ max_pages = 0 /\ products = <<>> /\ page = 1
    /\ max_articles = 0 /\ articles_data = <<>> /\ bbc_processed_urls = {}
    /\ seen_links = {} /\ unique_articles = <<>> /\ page_number = 1
    /\ scroll_pass = 0
    /\ max_products = 0 /\ products_data = <<>> /\ processed_urls = {}
    /\ g_page = 1 /\ all_products = <<>> /\ g_products = <<>>
    /\ max_videos = 0 /\ videos_data = <<>> /\ processed_videos = {}
    /\ last_video_count = 0 /\ no_new_videos_count = 0 /\ video_elements = <<>>
    /\ no_change_count = 0

FieldInit ==
    /\ TraversalIdle
    /\ product_data = None
    /\ accepted = <<>>
    /\ \/ /\ f_pc = "card"
          \* the page: a first card and up to MaxNodes later ones
          /\ \/ \E c \in AmazonCards, later \in SeqsUpTo(LaterAmazonCards, MaxNodes) :
                    grid = <<c>> \o later
             \/ \E c \in BBCCards, later \in SeqsUpTo(LaterBBCCards, MaxNodes) :
                    grid = <<c>> \o later
          /\ normalizer = "none"
          /\ normalized = <<>>
       \/ /\ f_pc = "text"
          /\ grid = <<>>
          /\ normalizer \in {"_clean_text", "clean_text", "title_cleanup", "_clean_url"}
          /\ \E text \in NormalizerInputs(normalizer) : normalized = <<text>>

\* amazon_scraper.py 426: product_data = self._extract_product_data(...)
ExtractProductData ==
    /\ f_pc = "card" /\ Head(grid).site = "amazon"
    /\ product_data' = _extract_product_data(Head(grid))
    /\ f_pc' = "extracted"
    /\ UNCHANGED <<traversalVars, grid, accepted, normalizer, normalized>>

\* AppendProduct without the test "if product_data" at 427
AppendProduct_NoTest ==
    /\ f_pc = "extracted" /\ Head(grid).site = "amazon"
    /\ accepted' = Append(accepted, product_data)
    /\ grid' = Tail(grid)
    /\ f_pc' = (IF Tail(grid) = <<>> THEN "end" ELSE "card")
    /\ UNCHANGED <<traversalVars, product_data, normalizer, normalized>>

\* amazon_scraper.py 427-428, then the next element of product_grid
AppendProduct ==
    /\ f_pc = "extracted" /\ Head(grid).site = "amazon"
    /\ accepted' = (IF product_data # None THEN Append(accepted, product_data)
                                            ELSE accepted)
    /\ grid' = Tail(grid)
    /\ f_pc' = (IF Tail(grid) = <<>> THEN "end" ELSE "card")
    /\ UNCHANGED <<traversalVars, product_data, normalizer, normalized>>

\* bbc_scraper.py 182-329: one card of the second for loop
ExtractArticle ==
    /\ f_pc = "card" /\ Head(grid).site = "bbc"
    /\ product_data' =
           BBCArticleData(Head(grid),
                          {Field(accepted[i], "link") : i \in 1..Len(accepted)})
    /\ accepted' = (IF product_data' # None THEN Append(accepted, product_data')
                                             ELSE accepted)
    /\ grid' = Tail(grid)
    /\ f_pc' = (IF Tail(grid) = <<>> THEN "end" ELSE "card")
    /\ UNCHANGED <<traversalVars, normalizer, normalized>>

\* a normalizer is applied to the text, then to its own result
NormalizeText ==
    /\ f_pc = "text"
    /\ normalized' = Append(normalized, Normalize(normalizer, normalized[Len(normalized)]))
    /\ f_pc' = (IF Len(normalized') = 3 THEN "end" ELSE "text")
    /\ UNCHANGED <<traversalVars, grid, product_data, accepted, normalizer>>

FieldNext == ExtractProductData \/ AppendProduct \/ ExtractArticle \/ NormalizeText

FieldSpec == FieldInit /\ [][FieldNext]_vars

----------------------------------------------------------------------------
\* Views of the running traversal.

\* the accumulated records
Records ==
    CASE routine = "amazon" -> products
      [] routine = "bbc" -> articles_data
      [] routine = "google" -> products_data
      [] OTHER -> videos_data

\* the identity (link / url) of each accumulated record, in order
Identities ==
    CASE routine = "amazon" -> [i \in 1..Len(products) |-> products[i].product_link]
      [] routine = "bbc" -> [i \in 1..Len(articles_data) |-> articles_data[i].link]
      [] routine = "google" -> [i \in 1..Len(products_data) |-> products_data[i].url]
      [] OTHER -> [i \in 1..Len(videos_data) |-> videos_data[i].link]

\* the target count of a target-driven traversal
Target ==
    CASE routine = "bbc" -> max_articles
      [] routine = "google" -> max_products
      [] routine = "youtube" -> max_videos
      [] OTHER -> max_pages

NoDuplicates(s) == \A i, j \in 1..Len(s) : i # j => s[i] # s[j]

IsPrefix(s, t) == Len(s) <= Len(t) /\ SubSeq(t, 1, Len(s)) = s

InScroll == pc = "scroll"

\* the traversal was called
TraversalCalled == pc # "main"

\* the traversal is over: it returned, or an interrupt left it
TraversalEnded == pc \in {"done", "interrupted"}

----------------------------------------------------------------------------
\* Claims.

\* C1: AmazonScraper.scrape_products terminates for every page limit and
\* every behaviour of the page: once called, a traversal whose scroll
\* routine always returns comes to its end.
C1_AmazonTerminates ==
    (routine = "amazon")
        => ((<>TraversalCalled /\ []<>(~InScroll)) => <>TraversalEnded)

\* C2: every scroll-until-stable routine (AmazonScraper._scroll_page,
\* BBCScraper._scroll_page, YouTubeScraper._human_like_scroll) ends for every
\* sequence of height readings.
C2_ScrollTerminates == [](InScroll => <>(~InScroll))

\* C3: the while loops of BBCScraper.scrape_news and
\* GoogleShoppingScraper.scrape_products exit for any page behaviour.
C3_TargetLoopsExit ==
    (routine \in {"bbc", "google"})
        => ((<>TraversalCalled /\ []<>(~InScroll)) => <>TraversalEnded)

\* C4: the list a target-driven traversal returns never holds more records
\* than the target.
C4_NeverMoreThanTarget ==
    (routine \in {"bbc", "google", "youtube"} /\ pc = "done")
        => Len(result) <= Target

\* C5: in GoogleShoppingScraper.scrape_products and
\* YouTubeScraper.search_videos, once the record count has reached the
\* (positive) target the traversal has returned the accumulated records: no
\* node is extracted, no scroll and no next-page action is issued after the
\* record that reached the target.
C5_StopAtTarget ==
    (routine \in {"google", "youtube"} /\ Target > 0 /\ Len(Records) >= Target)
        => (pc = "done" /\ ~failed /\ result = Records /\ Len(Records) = Target)

\* a traversal of Google Shopping reached its target of two on the first
\* node of a page
C5_Witness ==
    /\ routine = "google" /\ max_products = 2 /\ pc = "done"
    /\ Len(result) = 2 /\ examined = 1

\* C6: in BBCScraper.scrape_news, GoogleShoppingScraper.scrape_products and
\* YouTubeScraper.search_videos no two accumulated records have the same
\* identity at any point, and a step only appends to the accumulated
\* records: the first record of an identity is kept, a later one is dropped.
C6_UniqueFirstKept ==
    [][(routine \in {"bbc", "google", "youtube"})
          => (NoDuplicates(Identities') /\ IsPrefix(Records, Records'))]_vars

\* the second node of a Google Shopping page carried the url of the record
\* accepted from the first and was dropped
C6_Witness ==
    /\ routine = "google" /\ pc = "extract" /\ examined = 2
    /\ Len(products_data) = 1 /\ lastNode.url = products_data[1].url

\* C7: the records accumulated by AmazonScraper.scrape_products are unique
\* by product_link (stated for the records that have a link: no two of them
\* carry the same one).
C7_AmazonUnique ==
    (routine = "amazon")
        => \A i, j \in 1..Len(products) :
               (i # j /\ products[i].product_link # NA)
                   => products[i].product_link # products[j].product_link

\* C8: of two records whose URLs canonicalize to the same identity a
\* traversal accepts only the first.
C8_CanonicalUnique ==
    (routine = "google")
        => NoDuplicates([i \in 1..Len(products_data) |->
                            _clean_url(products_data[i].url)])

C10_NextFailureEndsNormally ==
    [][(routine \in {"amazon", "bbc", "google"} /\ pc = "next"
            /\ nextResult' \in NextFailures)
          => (pc' = "done" /\ ~failed' /\ result' = Records /\ Records' = Records)]_vars

\* a BBC traversal that held an article met a next-page click that raised
C10_Witness ==
    /\ routine = "bbc" /\ pc = "done" /\ nextResult = "raises"
    /\ Len(articles_data) >= 1 /\ result = articles_data

\* the identities a traversal has marked as seen
Seen ==
    CASE routine = "bbc" -> bbc_processed_urls
      [] routine = "google" -> processed_urls
      [] routine = "youtube" -> processed_videos
      [] OTHER -> {}

\* the entry point has left main, by return or by an exception
MainLeft == mpc \in {"returned", "raised"}

\* C11: AmazonScraper.scrape_products never scrolls, waits for the grid,
\* extracts or pages while its page index is above the page limit, and a loop
\* test met with the index above the limit ends the loop and returns the
\* accumulated products.
C11_PageLimit ==
    [][(routine = "amazon")
          => /\ (pc' \in {"scroll", "grid", "extract", "next"}) => page' <= max_pages'
             /\ (pc = "loop" /\ page > max_pages /\ pc' # "interrupted")
                   => (pc' = "done" /\ ~failed' /\ result' = products
                       /\ products' = products)]_vars

\* a traversal with page limit 1 verified the change to page 2 and returned
\* its products
C11_Witness ==
    /\ routine = "amazon" /\ max_pages = 1 /\ page = 2 /\ pc = "done"
    /\ Len(products) >= 1 /\ result = products

\* C12: a traversal that ends by failure returns the records it had
\* accumulated.
C12_FailureKeepsRecords ==
    (pc = "done" /\ failed) => result = Records

\* C13: the value a traversal returns by failure differs from the value a
\* traversal returns that ends normally without a record (the empty list).
C13_FailureDistinct ==
    (pc = "done" /\ failed) => result # <<>>

\* C14: after a user interrupt the records accepted before it have been
\* handed to the entry point and written to the output files when main is
\* left.
C14_InterruptKeepsRecords ==
    (signal = "raised" /\ MainLeft /\ Records # <<>>)
        => (result = Records /\ persisted = Records)

\* C15: an entry point that created its scraper has called close() when it
\* leaves main, by return or by exception, and after close() the traversal
\* takes no step and nothing is saved.
C15_CloseOnEveryExit ==
    [][/\ (entry # "direct" /\ scraper' = "created" /\ mpc' \in {"returned", "raised"})
            => closed'
       /\ closed => (closed' /\ pc' = pc /\ Records' = Records
                     /\ persisted' = persisted)]_vars

\* amazon_main.main was interrupted in the middle of the traversal, which its
\* except clause does not catch, and closed the scraper on the way out
C15_Witness ==
    /\ entry = "amazon_main" /\ signal = "raised" /\ pc = "interrupted"
    /\ mpc = "raised" /\ closed /\ Len(products) >= 1

\* C16: the stale-element refresh of BBCScraper.scrape_news is repeated only
\* a bounded number of times in a row: a traversal that refreshes again and
\* again has rounds without error again and again.
C16_BoundedConsecutiveErrors ==
    (routine = "bbc")
        => (([]<><<pc = "find" /\ pc' = "loop">>_vars)
               => []<>(pc \in {"filter", "next"}))

\* C17: with target 3, a first page that enumerates the valid nodes /a, /b,
\* /a leaves the records /a, /b in that order once its nodes are processed,
\* and a second page that enumerates /c then ends the traversal normally
\* with the records /a, /b, /c (GoogleShoppingScraper.scrape_products).
C17_ThreePageScenario ==
    (routine = "google" /\ max_products = 3)
        => /\ (g_page = 1 /\ pc = "extract" /\ all_products = ThreeNodePage
                  /\ examined = 3)
                => Identities = <<UrlA, UrlB>>
           /\ (g_page = 2 /\ all_products = OneNodePage /\ examined >= 1
                  /\ Len(products_data) >= 2
                  /\ SubSeq(Identities, 1, 2) = <<UrlA, UrlB>>)
                => (pc = "done" /\ ~failed /\ result = products_data
                    /\ Identities = <<UrlA, UrlB, UrlC>>)

\* the position at which the page enumerates the first node with link u
FirstPosition(s, u) ==
    CHOOSE k \in 1..Len(s) : s[k].url = u /\ \A m \in 1..(k - 1) : s[m].url # u

\* C18: on the first page of GoogleShoppingScraper.scrape_products the
\* accepted records stand in the order in which the page enumerates their
\* nodes.
C18_EnumerationOrder ==
    (routine = "google" /\ g_page = 1 /\ pc = "extract")
        => \A i, j \in 1..Len(products_data) :
               i < j => FirstPosition(all_products, products_data[i].url)
                            < FirstPosition(all_products, products_data[j].url)

\* C19: a node whose reading raises leaves the accumulated records and the
\* seen identities unchanged, and the loop over the nodes goes on with the
\* next node: the traversal neither returns nor fails.
C19_NodeFailureIsolated ==
    [][(pc \in {"extract", "filter"} /\ examined' = examined + 1 /\ lastNode'.err)
          => (Records' = Records /\ Seen' = Seen /\ pc' = pc /\ ~failed')]_vars

\* on a Google Shopping page the node after one whose reading raised was
\* processed and its record accepted
C19_Witness ==
    /\ routine = "google" /\ pc = "extract" /\ examined = 2
    /\ g_products[1].err /\ ~g_products[2].err
    /\ Len(products_data) = 1 /\ products_data[1].url = g_products[2].url

\* C20: no field of an accepted record is None.
C20_NoNullField ==
    /\ (routine = "amazon")
          => \A i \in 1..Len(products) : products[i].product_link # None
    /\ (routine = "google")
          => \A i \in 1..Len(products_data) :
                 products_data[i].url # None /\ products_data[i].price # None
    /\ (routine = "youtube")
          => \A i \in 1..Len(videos_data) :
                 videos_data[i].link # None /\ videos_data[i].thumbnail # None

\* C21: no accumulated record has an unavailable identity: no Amazon record
\* has the product_link "N/A", no Google Shopping record lacks its url.
C21_NoUnavailableIdentity ==
    /\ (routine = "amazon")
          => \A i \in 1..Len(products) : products[i].product_link # NA
    /\ (routine = "google")
          => \A i \in 1..Len(products_data) :
                 products_data[i].url \notin {None, <<>>}

\* C29: in AmazonScraper._scroll_page one unchanged height reading ends the
\* loop, and a changed reading becomes the reference of the next comparison
\* and keeps the loop going.  In YouTubeScraper._human_like_scroll an
\* unchanged reading adds one to no_change_count, the loop is left by its
\* break only with the max_no_change-th consecutive unchanged reading, and
\* every changed reading, the one after the final aggressive scrolls
\* included, becomes the reference and sets no_change_count to 0.
C29_StableCounter ==
    [][/\ (routine = "amazon" /\ pc = "scroll" /\ pc' \notin {"done", "interrupted"})
             => \/ pc' = "grid" /\ last_height' = last_height
                \/ pc' = "scroll" /\ last_height' # last_height
       /\ (routine = "youtube" /\ pc = "scroll")
             => /\ (last_height' # last_height)
                      => (no_change_count' = 0 /\ pc' = "scroll")
                /\ (last_height' = last_height /\ pc' = "scroll")
                      => /\ no_change_count' = no_change_count + 1
                         /\ no_change_count' < max_no_change
                /\ (pc' = "loop" /\ no_change_count' # no_change_count)
                      => /\ no_change_count' = no_change_count + 1
                         /\ no_change_count' = max_no_change
                         /\ last_height' = last_height]_vars

\* _human_like_scroll was left with the max_no_change-th consecutive
\* unchanged reading
C29_Witness ==
    routine = "youtube" /\ pc = "loop" /\ no_change_count = max_no_change

\* the page index of a paged traversal
PageIndex ==
    CASE routine = "amazon" -> page
      [] routine = "bbc" -> page_number
      [] OTHER -> g_page

\* the next-page actions after which the code advances the index
Advancing == {"verified", "clicked", "clicked_timeout"}

\* C30: a paged traversal starts with page index 1; while it runs the index
\* never decreases; it changes only by the step of a next-page action that
\* was issued (and, in AmazonScraper.scrape_products, verified), and then by
\* exactly 1; a next-page action that failed or was not verified leaves it
\* unchanged.
C30_PagesInOrder ==
    [][(routine \in {"amazon", "bbc", "google"} /\ pc' # "interrupted")
          => /\ (pc = "start" /\ pc' = "loop") => PageIndex' = 1
             /\ PageIndex' >= PageIndex
             /\ (PageIndex' # PageIndex)
                   => /\ PageIndex' = PageIndex + 1
                      /\ pc = "next" /\ nextResult' \in Advancing
             /\ (pc = "next" /\ nextResult' \in Advancing)
                   => PageIndex' = NextIndex(PageIndex)
             /\ (pc = "next" /\ nextResult' \notin Advancing)
                   => PageIndex' = PageIndex]_vars

\* AmazonScraper.scrape_products went on to page 2 after a verified click,
\* having retried no page in between
C30_Witness ==
    /\ routine = "amazon" /\ pc = "loop" /\ page = 2 /\ nextResult = "verified"
    /\ Len(products) >= 1

\* C26: the text normalizers are idempotent: AmazonScraper._clean_text and
\* utils.clean_text, applied to their own result, return that result
\* unchanged, whatever the text they were first applied to.
C26_NormalizersIdempotent ==
    (normalizer \in {"_clean_text", "clean_text"} /\ Len(normalized) = 3)
        => normalized[3] = normalized[2]

\* C27: the Amazon title cleanup is idempotent: applied to its own result it
\* returns that result unchanged.
C27_TitleCleanupIdempotent ==
    (normalizer = "title_cleanup" /\ Len(normalized) = 3)
        => normalized[3] = normalized[2]

\* the record extracted from the card at hand
Extracted == f_pc = "extracted" /\ product_data # None

\* a decimal number with optional thousands separators that parses as a
\* number
IsDecimal(s) ==
    /\ \A i \in 1..Len(s) : IsDigit(s[i]) \/ s[i] \in {".", ","}
    /\ ParsesAsFloat(SelectSeq(s, LAMBDA c : c # ","))

\* C23: the rating of every Amazon record is "N/A" or a string that parses
\* as a number: a text with "out of 5" whose leading part is no number is
\* never kept as the rating.
C23_RatingIsNumber ==
    Extracted =>
        LET rating == Field(product_data, "rating")
        IN  rating = NA \/ ParsesAsFloat(rating)

\* C24: the price _extract_price returns is "N/A" or "$" followed by a
\* decimal number with optional thousands separators; a selector whose text
\* is no such number is rejected, and a number found without the symbol is
\* returned with "$" before it.
C24_PriceIsNumber ==
    Extracted =>
        LET price == Field(product_data, "price")
            texts == SelectSeq(Head(grid).prices,
                               LAMBDA t : t # None /\ strip(t) # <<>>)
        IN  /\ price = NA \/ (Head(price) = "$" /\ IsDecimal(Tail(price)))
            /\ (texts # <<>> /\ IsDecimal(strip(Head(texts))))
                  => price = <<"$">> \o strip(Head(texts))

\* the digits of the text of a review element, None when the selector
\* finds no element
Digits(text) == IF text = None THEN <<>> ELSE SelectSeq(text, IsDigit)

\* C25: the review_count of every Amazon record is a non-empty string of
\* digits: it is the digits of the text of the first review element whose
\* text holds a digit, every selector before it being passed over, and "0"
\* when no element holds one.
C25_ReviewCountDigits ==
    Extracted =>
        LET review_count == Field(product_data, "review_count")
            reviews == Head(grid).reviews
        IN  /\ review_count # <<>>
            /\ \A i \in 1..Len(review_count) : IsDigit(review_count[i])
            /\ \A k \in 1..Len(reviews) :
                  (Digits(reviews[k]) # <<>>
                   /\ \A j \in 1..(k - 1) : Digits(reviews[j]) = <<>>)
                      => review_count = Digits(reviews[k])
            /\ (\A k \in 1..Len(reviews) : Digits(reviews[k]) = <<>>)
                  => review_count = <<"0">>

\* the first review element holds no digit and was passed over, the second
\* gave the count
C25_Witness ==
    /\ Extracted
    /\ Len(Head(grid).reviews) >= 2
    /\ Head(grid).reviews[1] # None /\ Digits(Head(grid).reviews[1]) = <<>>
    /\ Field(product_data, "review_count") = <<"1", "9">>

\* the position of the first entry of a chain that is usable, 0 when none is
FirstUsable(chain, Usable(_)) ==
    IF \E i \in 1..Len(chain) : Usable(chain[i])
    THEN CHOOSE i \in 1..Len(chain) :
             Usable(chain[i]) /\ \A j \in 1..(i - 1) : ~Usable(chain[j])
    ELSE 0

\* the field name of the record at hand is decided by the first usable entry
\* of its chain: it is what that entry alone yields, and it is the same for
\* every chain of alts that agrees with the chain up to that entry; With(c)
\* is the card at hand with the chain c in place of its own
FirstMatchWins(name, chain, Usable(_), alts, With(_)) ==
    LET k == FirstUsable(chain, Usable)
        value == Field(product_data, name)
    IN  k > 0 =>
            /\ Field(_extract_product_data(With(<<chain[k]>>)), name) = value
            /\ \A alt \in alts :
                  (Len(alt) >= k /\ SubSeq(alt, 1, k) = SubSeq(chain, 1, k))
                      => Field(_extract_product_data(With(alt)), name) = value

\* the entries the code accepts as the value of a field
UsableLink(href) == href # None
UsablePriceText(text) == text # None /\ strip(text) # <<>>
UsableRating(text) ==
    /\ text # None
    /\ "out of 5" \in Range(lower(text))
    /\ ParsesAsFloat(strip(SplitFirst(text, <<"out of 5">>)))
UsableTitle(text) == text # <<>> /\ CharLen(strip(text)) > CharLen(NA)

C22_LinkChain ==
    FirstMatchWins("product_link", Head(grid).hrefs, UsableLink, Chains(Urls),
                   LAMBDA c : [Head(grid) EXCEPT !.hrefs = c])
C22_PriceChain ==
    FirstMatchWins("price", Head(grid).prices, UsablePriceText, Chains(PriceTexts),
                   LAMBDA c : [Head(grid) EXCEPT !.prices = c])
C22_RatingChain ==
    FirstMatchWins("rating", Head(grid).ratings, UsableRating, Chains(RatingTexts),
                   LAMBDA c : [Head(grid) EXCEPT !.ratings = c])
C22_TitleChain ==
    FirstMatchWins("title", Head(grid).titles, UsableTitle,
                   SeqsUpTo(TitleTexts, MaxSelectors),
                   LAMBDA c : [Head(grid) EXCEPT !.titles = c])

\* C22: the selector chains of AmazonScraper are first-match-wins: when an
\* earlier selector of the link, price, rating or title chain yields a
\* usable value, the field is that value, and changing or removing what the
\* later selectors match never changes it.
C22_FirstMatchWins ==
    Extracted =>
        /\ C22_LinkChain
        /\ C22_PriceChain
        /\ C22_RatingChain
        /\ (Head(grid).link_title = None => C22_TitleChain)

\* C28: the records of one page have the same field names in the same
\* order, no entry of the list is None, and the field sponsored of an Amazon
\* record is a boolean.
C28_RecordSchema ==
    \A i \in 1..Len(accepted) :
        /\ accepted[i] # None
        /\ Keys(accepted[i]) = Keys(accepted[1])
        /\ "sponsored" \in Range(Keys(accepted[i]))
              => Field(accepted[i], "sponsored") \in BOOLEAN

\* a page of three Amazon cards is done: the first and the sponsored card
\* gave a record each, the card whose reading raised gave none
C28_Witness ==
    /\ f_pc = "end" /\ product_data = None
    /\ Len(accepted) = 2
    /\ \A i \in 1..2 : "sponsored" \in Range(Keys(accepted[i]))
    /\ Field(accepted[1], "sponsored") = FALSE
    /\ Field(accepted[2], "sponsored") = TRUE

\* C31: a round of YouTubeScraper.search_videos processes only elements that
\* no earlier round processed: when a round that examined the elements
\* video_elements[last_video_count : last_video_count + examined] is
\* followed by another, the slice of that round begins behind them.
C31_OnlyNewElements ==
    [][(routine = "youtube" /\ pc = "extract" /\ pc' \in {"loop", "scroll"})
          => last_video_count' >= last_video_count + examined]_vars

\* what is left of the budget of the main loop of search_videos:
\* max_retries iterations for every record still wanted, and those of the
\* running series of iterations without a new record
IterationsLeft ==
    (max_videos - last_video_count) * max_retries
        + (max_retries - no_new_videos_count)

\* an iteration of the main loop ends: the for loop is over (304), or the
\* except clause at 324 counted an exception
IterationEnds ==
    /\ routine = "youtube"
    /\ \/ pc = "extract" /\ pc' \in {"loop", "scroll", "done"}
       \/ pc = "loop" /\ no_new_videos_count' # no_new_videos_count

\* C32: the main loop of YouTubeScraper.search_videos runs at most
\* max_retries * (max_videos + 1) iterations: it starts with that budget,
\* every iteration either adds a record and sets no_new_videos_count to 0 or
\* adds none and increments no_new_videos_count, each iteration takes at
\* least one from the budget, which is never negative and changes only when
\* an iteration ends, and the loop is left when no_new_videos_count reaches
\* max_retries or the record count reaches max_videos.
C32_BoundedIterations ==
    [][(routine = "youtube" /\ pc' # "interrupted") =>
          /\ (pc = "start" /\ pc' = "loop")
                => IterationsLeft' = max_retries * (max_videos + 1)
          /\ IterationsLeft' >= 0
          /\ IterationEnds
                => /\ IterationsLeft' < IterationsLeft
                   /\ \/ /\ Len(videos_data') > last_video_count
                         /\ no_new_videos_count' = 0
                         /\ last_video_count' = Len(videos_data')
                      \/ /\ Len(videos_data') = last_video_count
                         /\ no_new_videos_count' = no_new_videos_count + 1
                   /\ (pc' = "done")
                         <=> \/ no_new_videos_count' >= max_retries
                             \/ Len(videos_data') >= max_videos
          /\ (~IterationEnds /\ pc # "start") => IterationsLeft' = IterationsLeft
      ]_vars

\* the loop was left by the max_retries-th iteration without a new record,
\* after an iteration that had added one of the two records wanted
C32_Witness ==
    /\ routine = "youtube" /\ pc = "done" /\ ~failed
    /\ max_videos = 2 /\ last_video_count = 1 /\ Len(video_elements) = 2
    /\ no_new_videos_count = max_retries
    /\ IterationsLeft = max_retries

\* C33: while BBCScraper.scrape_news, GoogleShoppingScraper.scrape_products
\* or YouTubeScraper.search_videos runs, and when it has returned, the set of
\* seen identities is exactly the set of the identities of the accumulated
\* records; a step that appends no record leaves the set unchanged, and a
\* step that appends one adds its identity and nothing else.
C33_SeenIsIdentities ==
    [][(routine \in {"bbc", "google", "youtube"} /\ pc' # "interrupted")
          => /\ Seen' = Range(Identities')
             /\ (Records' = Records) => Seen' = Seen
             /\ (Records' # Records)
                   => /\ Len(Records') = Len(Records) + 1
                      /\ IsPrefix(Records, Records')
                      /\ Seen' = Seen \cup {Identities'[Len(Records')]}]_vars

\* a traversal of Google Shopping examined two nodes of a page, one of which
\* added no record; the identity of the one record is the only one seen
C33_Witness ==
    /\ routine = "google" /\ pc = "extract" /\ examined = 2
    /\ Len(products_data) = 1 /\ Cardinality(processed_urls) = 1
    /\ lastNode.url \in processed_urls

\* C34: every article BBCScraper.scrape_news accepts has a non-empty title,
\* a link that holds "/news/", a date that is not "N/A" and a non-empty
\* description: a card whose description selectors yield no non-empty text
\* is not accepted.
C34_ArticleValidated ==
    \A i \in 1..Len(accepted) :
        "description" \in Range(Keys(accepted[i]))
            => /\ Field(accepted[i], "title") \notin {<<>>, None, NA}
               /\ "/news/" \in Range(Field(accepted[i], "link"))
               /\ Field(accepted[i], "date") # NA
               /\ Field(accepted[i], "description") \notin {<<>>, None, NA}

\* C35: amazon_main.main lets no exception escape: whatever fails in its try
\* block, the construction of the settings and of the scraper included, main
\* is not left by an exception (no user interrupt being involved).
C35_NoExceptionEscapes ==
    (entry = "amazon_main" /\ signal = "none") => mpc # "raised"

\* the percent-encoded tokens of the replacement table
EncodedTokens == {replacements[i][1] : i \in 1..Len(replacements)}

\* C36: AmazonScraper._clean_url is a canonicalization: applied to its own
\* result it returns that result unchanged, it maps the empty URL and "N/A"
\* to "N/A", and its result holds neither "/ref=" nor an encoded token of
\* the replacement table.
C36_CleanUrlCanonical ==
    (normalizer = "_clean_url" /\ Len(normalized) >= 2)
        => /\ Len(normalized) = 3 => normalized[3] = normalized[2]
           /\ normalized[1] \in {<<>>, NA} => normalized[2] = NA
           /\ ~Contains(normalized[2], <<"/", "ref", "=">>)
           /\ Range(normalized[2]) \cap EncodedTokens = {}

====
